---- MODULE Spec2Model ----
(***************************************************************************)
(* WebsiteMonitor: the manual run executor (runEnhancedTests), the         *)
(* scheduled executor (main, WebsiteMonitor.runAllTests), the in-memory    *)
(* progress tracker (activeTests), the check registry and the result store *)
(* (Database) the runs write to.  Node's event loop is single threaded:    *)
(* every action below is one handler, or one continuation of an async      *)
(* function between two awaits.                                            *)
(***************************************************************************)
EXTENDS Integers, Sequences, FiniteSets, TLC

\* ------------------------------------------------------------------ bounds
MaxRuns == 2
MaxTime == 3600001

\* ------------------------------------------------------- program constants
HourMs == 3600000
EvictDelayMs == 300000
DefaultOrder == 999

\* null / undefined: in a string field, in a numeric field
Null == "null"
Undefined == 0 - 1

RunIds == 1..MaxRuns
\* ids a client may ask about: every id the server can hand out and one it never does
KnownOrUnknownIds == 0..MaxRuns

Max(a, b) == IF a >= b THEN a ELSE b

\* Math.round(n / d) for integers n >= 0, d > 0 (halves round up)
MathRound(n, d) == (2 * n + d) \div (2 * d)

\* ---------------------------------------------------------------- checks
\* The check classes: name and critical are set in each constructor; outcomes
\* are the statuses run() can return ("THROW": run() rejects, as when the browser
\* launch outside LoginPlatformTest's try block fails).
CheckClasses ==
  [ AvailabilityTest  |-> [name |-> "Checking www.grivas.gr availability",
                           critical |-> TRUE, outcomes |-> {"PASS", "FAIL"}],
    LoginPlatformTest |-> [name |-> "[ -- Checking login on platform -- ]",
                           critical |-> TRUE,
                           outcomes |-> {"PASS", "FAIL", "THROW"}],
    AuthEshopTest     |-> [name |-> "Eshop Auth", critical |-> TRUE,
                           outcomes |-> {"PASS", "FAIL", "SKIP"}],
    PasswordResetTest |-> [name |-> "Password Reset", critical |-> FALSE,
                           outcomes |-> {"PASS", "FAIL", "SKIP"}],
    PerformanceTest   |-> [name |-> "Page Performance", critical |-> FALSE,
                           outcomes |-> {"PASS", "FAIL"}] ]

\* The registrations made when the registry module is loaded (AuthPlatformTest
\* is the class LoginPlatformTest).
Registrations ==
  << [class |-> "AvailabilityTest",  options |-> [enabled |-> TRUE, order |-> 10]],
     [class |-> "LoginPlatformTest", options |-> [enabled |-> TRUE, order |-> 20]],
     [class |-> "AuthEshopTest",     options |-> [enabled |-> TRUE, order |-> 30]] >>

\* A registry edited as the commented-out block of the registry module suggests:
\* a non-critical check, a disabled check, and the critical login check
\* registered last.
DevelopmentRegistrations ==
  << [class |-> "PasswordResetTest", options |-> [enabled |-> TRUE,  order |-> 30]],
     [class |-> "PerformanceTest",   options |-> [enabled |-> FALSE, order |-> 40]],
     [class |-> "LoginPlatformTest", options |-> [enabled |-> TRUE,  order |-> 20]] >>

\* TestRegistry.register: options.enabled !== false, options.order || 999
register(tests, testClass, options) ==
  Append(tests, [class   |-> testClass,
                 enabled |-> IF "enabled" \in DOMAIN options
                             THEN options.enabled # FALSE ELSE TRUE,
                 order   |-> IF "order" \in DOMAIN options /\ options.order # 0
                             THEN options.order ELSE DefaultOrder])

\* the calls of register made when the registry module is loaded, in order
RegisterAll(tests, regs) ==
  tests \o [i \in 1..Len(regs) |-> register(<< >>, regs[i].class, regs[i].options)[1]]

\* Array.prototype.sort with (a, b) => a.order - b.order, a stable sort: the
\* place of s[i] is the number of elements that come before it
PlaceInOrder(s, i) ==
  Cardinality({j \in 1..Len(s) :
     \/ s[j].order < s[i].order
     \/ s[j].order = s[i].order /\ j <= i})

SortByOrder(s) ==
  [p \in 1..Len(s) |-> s[CHOOSE i \in 1..Len(s) : PlaceInOrder(s, i) = p]]

IsEnabled(t) == t.enabled

\* new t.class(config, logger)
Instantiate(t) == [class |-> t.class, name |-> CheckClasses[t.class].name,
                   critical |-> CheckClasses[t.class].critical]

\* TestRegistry.getTests
getTests(tests) ==
  LET sorted == SortByOrder(SelectSeq(tests, IsEnabled))
  IN  [i \in 1..Len(sorted) |-> Instantiate(sorted[i])]

\* ----------------------------------------------------------------- state
VARIABLES
  config,            \* config.json: monitoring.stopOnCriticalFailure, alerts.*
  registered,        \* the calls registry.register(class, options) made at load
  registry,          \* TestRegistry.tests
  now,               \* Date.now()
  nextId,            \* the next fresh testId
  activeTests,       \* keys of the activeTests map
  testProgress,      \* the testProgress object of each started run (the map's values)
  exec,              \* each runEnhancedTests call: its position and its monitor
  timers,            \* pending setTimeout callbacks
  test_runs,         \* table test_runs
  individual_tests,  \* table individual_tests
  uptime_stats,      \* table uptime_stats
  incidents,         \* table incidents
  reports,           \* report files written by saveReport
  sentAlerts,        \* runs whose alert e-mail was delivered
  faults,            \* failures injected so far (throws, failed statements, failed mail)
  cleanupConfig,     \* config.monitoring.cleanup
  fileSystem,        \* the files of the log, report and screenshot directories, by path
  cleanupResults,    \* what performCleanup returned, once it has run
  sweep,             \* history: the files the sweep found and the operation that failed in it
  directories        \* the directories of config.paths that exist

vars == << config, registered, registry, now, nextId, activeTests, testProgress, exec, timers,
           test_runs, individual_tests, uptime_stats, incidents, reports, sentAlerts,
           faults, cleanupConfig, fileSystem, cleanupResults, sweep, directories >>

cleanupVars == << cleanupConfig, fileSystem, cleanupResults, sweep, directories >>

trackerVars == << activeTests, testProgress, timers >>
storeVars == << test_runs, individual_tests, uptime_stats, incidents >>

MaxFaults == 1
DayMs == 86400000

ConfigChoices ==
  [stopOnCriticalFailure : BOOLEAN, sendOnFailure : {TRUE}, sendOnSuccess : {FALSE},
   smtpConfigured : {TRUE}]

\* new Date().toISOString().split('T')[0]
Today(t) == t \div DayMs

CanFail == faults < MaxFaults

\* ------------------------------------------------------- progress entries
\* the testProgress literal of the start handler
NewEntry(id, t) ==
  [id |-> id, status |-> "running", startTime |-> t, progress |-> 0,
   currentTest |-> Null, results |-> {}, user |-> "anonymous",
   endTime |-> Undefined, duration |-> Undefined, error |-> Null, cancelledBy |-> Null]

\* progress computed from the number of the check rather than the checks done
ProgressPercentOfNext(completedTests, totalTests) ==
  MathRound((completedTests + 1) * 100, totalTests)

\* progress rounded down
ProgressPercentFloor(completedTests, totalTests) == (completedTests * 100) \div totalTests

\* progress = Math.round((completedTests / totalTests) * 100)
ProgressPercent(completedTests, totalTests) == MathRound(completedTests * 100, totalTests)

\* the top of the loop body: currentTest and progress
LoopTop(p, name, completedTests, totalTests) ==
  [p EXCEPT !.currentTest = name,
            !.progress = ProgressPercent(completedTests, totalTests)]

\* "Update progress" after processResults
Completed(p, results, t) ==
  [p EXCEPT !.status = "completed", !.progress = 100, !.results = {results},
            !.endTime = t, !.duration = t - p.startTime]

\* a catch block that records no message
FailedNoMessage(p, message, t) ==
  [p EXCEPT !.status = "failed", !.endTime = t]

\* the catch block of runEnhancedTests
Failed(p, message, t) ==
  [p EXCEPT !.status = "failed", !.error = message, !.endTime = t]

\* "Mark as cancelled"
Cancelled(p, t) ==
  [p EXCEPT !.status = "cancelled", !.endTime = t, !.cancelledBy = "unknown"]

\* a sweep that spares the entries of runs still running
cleanUpOldTestsSparesRunning(keys, entries, t) ==
  {k \in keys : entries[k].status = "running" \/ ~(entries[k].startTime < t - HourMs)}

\* cleanUpOldTests: the keys left in the map
cleanUpOldTests(keys, entries, t) ==
  {k \in keys : ~(entries[k].startTime < t - HourMs)}

\* ----------------------------------------------------------------- results
IsPass(t) == t.status = "PASS"
IsFail(t) == t.status = "FAIL"

\* parseFloat(((passed / total) * 100).toFixed(2)), in hundredths of a percent
SuccessRate(passed, total) ==
  IF total > 0 THEN MathRound(passed * 10000, total) ELSE 0

\* a summary that counts every Result that did not fail as passed
SummarySkipPasses(tests) ==
  LET total == Len(tests)
      failed == Len(SelectSeq(tests, IsFail))
  IN  [total |-> total, passed |-> total - failed, failed |-> failed,
       successRate |-> SuccessRate(total - failed, total)]

\* "Calculate summary"
Summary(tests) ==
  LET total == Len(tests)
      passed == Len(SelectSeq(tests, IsPass))
      failed == Len(SelectSeq(tests, IsFail))
  IN  [total |-> total, passed |-> passed, failed |-> failed,
       successRate |-> SuccessRate(passed, total)]

\* the loop without its break
StopsSequenceNoBreak(testResult, stopOnCriticalFailure) == FALSE

\* a loop that breaks at every critical check that did not pass
StopsSequenceAnyCritical(testResult, stopOnCriticalFailure) ==
  testResult.critical /\ testResult.status # "PASS"

\* "Stop on critical failure if configured"
StopsSequence(testResult, stopOnCriticalFailure) ==
  testResult.critical /\ testResult.status = "FAIL" /\ stopOnCriticalFailure

\* A text is a sequence of characters.  "|" and ";" are the characters the
\* store's reader gives a meaning to; "a" stands for any other character, and a
\* name or a status is one token free of both.
Chars == {"a", "|", ";"}

\* the longest details text drawn as an input
MaxDetailsLen == 2

Texts == UNION {[1..n -> Chars] : n \in 0..MaxDetailsLen}

\* A value that may be absent (undefined or null in the program, NULL in the
\* store) is a set: empty when absent, else holding the value.
Absent == {}
Present(v) == {v}
ValueOf(opt) == CHOOSE v \in opt : TRUE

\* the Result a check's run() returns; every check sets details to a text
TestResult(inst, status) ==
  [name |-> inst.name, critical |-> inst.critical, status |-> status,
   details |-> Present(<<"a">>)]

\* an executor call that has its monitor and its testInstances: runEnhancedTests
\* (caller "manual") or main -> runAllTests (caller "scheduled")
NewExec(caller, testInstances) ==
  [caller |-> caller, pc |-> "run", testInstances |-> testInstances,
   totalTests |-> Len(testInstances), i |-> 0, completedTests |-> 0, tests |-> << >>,
   summary |-> [total |-> 0, passed |-> 0, failed |-> 0, successRate |-> 0],
   runId |-> Undefined, dbRunId |-> Undefined, queue |-> << >>,
   error |-> Null, exitCode |-> Undefined]

\* monitor.results as handed to the entry
MonitorResults(e) == [tests |-> e.tests, summary |-> e.summary, runId |-> e.runId]

\* ------------------------------------------------------------- the cleanup
\* config.monitoring.cleanup: files older than retentionDays go, logs above
\* maxLogSizeMB are rotated
RetentionDays == 1
MaxLogSizeMB == 1
MaxLogBytes == MaxLogSizeMB * 1024 * 1024

CleanupConfigChoices ==
  [enabled : BOOLEAN, retentionDays : {RetentionDays}, deleteEmptyLogs : BOOLEAN,
   maxLogSizeMB : {MaxLogSizeMB}]

\* the time of the sweep, and the cutoffDate each category computes from it
CleanupNow == (RetentionDays + 1) * DayMs
CutoffDate(t, cfg) == t - cfg.retentionDays * DayMs

\* The directories, in the order readdirSync lists them.  A rotated log has the
\* path of the log followed by ".old".
LogsDir == << "logs/app.log", "logs/app.log.old", "logs/err.log", "logs/err.log.old" >>
ReportsDir == << "reports/report.json" >>
ScreenshotsDir == << "screenshots/shot.png" >>

\* file.endsWith('.log')
EndsWithLog(path) == path \in {"logs/app.log", "logs/err.log"}
\* file.endsWith('.json') || file.endsWith('.html')
EndsWithReport(path) == path \in {"reports/report.json"}
\* file.endsWith('.png') || file.endsWith('.jpg') || file.endsWith('.jpeg')
EndsWithImage(path) == path \in {"screenshots/shot.png"}

\* `${filePath}.old`
OldPath(path) == IF path = "logs/app.log" THEN "logs/app.log.old" ELSE "logs/err.log.old"

\* fs.readdirSync: the paths of a directory that exist
readdirSync(fs, dir) ==
  LET exists(path) == path \in DOMAIN fs
  IN  SelectSeq(dir, exists)

\* fs.unlinkSync, fs.renameSync (an existing target is replaced), fs.writeFileSync
unlinkSync(fs, path) == [q \in DOMAIN fs \ {path} |-> fs[q]]
renameSync(fs, path, newPath) == (newPath :> fs[path]) @@ unlinkSync(fs, path)
writeFileSync(fs, path, t) == (path :> [size |-> 0, mtime |-> t, content |-> ""]) @@ fs

\* the file operation that fails during a sweep, if any
NoFault == [path |-> "", op |-> ""]
FileOps == {"stat", "unlink", "rename", "write"}
Fails(fault, path, op) == fault = [path |-> path, op |-> op]

ZeroTally == [deleted |-> 0, errors |-> 0, totalSize |-> 0]
NewResults == [logs |-> ZeroTally, reports |-> ZeroTally, screenshots |-> ZeroTally]

Counted(results, category, size) ==
  [results EXCEPT ![category].deleted = @ + 1, ![category].totalSize = @ + size]
Errored(results, category) == [results EXCEPT ![category].errors = @ + 1]

\* CleanupManager.processFile; st holds the files and the results so far
processFile(st, filePath, cutoffDate, category, cfg, fault) ==
  IF Fails(fault, filePath, "stat") THEN [st EXCEPT !.results = Errored(@, category)]
  ELSE LET stats == st.files[filePath]
       IN  IF cfg.deleteEmptyLogs /\ stats.size = 0
           THEN IF Fails(fault, filePath, "unlink")
                THEN [st EXCEPT !.results = Errored(@, category)]
                ELSE [files |-> unlinkSync(st.files, filePath),
                      results |-> Counted(st.results, category, 0)]
           ELSE IF stats.mtime < cutoffDate
                THEN IF Fails(fault, filePath, "unlink")
                     THEN [st EXCEPT !.results = Errored(@, category)]
                     ELSE [files |-> unlinkSync(st.files, filePath),
                           results |-> Counted(st.results, category, stats.size)]
                ELSE st

\* "for (const file of files) { ...; await this.processFile(...) }"
RECURSIVE ProcessEach(_, _, _, _, _, _)
ProcessEach(st, paths, cutoffDate, category, cfg, fault) ==
  IF paths = << >> THEN st
  ELSE ProcessEach(processFile(st, Head(paths), cutoffDate, category, cfg, fault),
                   Tail(paths), cutoffDate, category, cfg, fault)

\* a size test that also takes a log of exactly the maximum size
OversizedAtLimit(stats, cfg) == stats.size >= cfg.maxLogSizeMB * 1024 * 1024

\* "stats.size > maxSizeBytes", maxSizeBytes being maxLogSizeMB * 1024 * 1024
Oversized(stats, cfg) == stats.size > cfg.maxLogSizeMB * 1024 * 1024

\* the loop of checkOversizedLogs from its file paths[1] on: an exception leaves
\* the loop for the catch block, which logs it
RECURSIVE RotateEach(_, _, _, _, _)
RotateEach(st, paths, cfg, fault, t) ==
  IF paths = << >> THEN st
  ELSE LET filePath == Head(paths)
           stats == st.files[filePath]
           renamed == renameSync(st.files, filePath, OldPath(filePath))
       IN  IF Fails(fault, filePath, "stat") THEN st
           ELSE IF Oversized(stats, cfg)
                THEN IF Fails(fault, filePath, "rename") THEN st
                     ELSE IF Fails(fault, filePath, "write")
                          THEN [st EXCEPT !.files = renamed]
                          ELSE RotateEach(
                                 [files |-> writeFileSync(renamed, filePath, t),
                                  results |-> Counted(st.results, "logs", stats.size)],
                                 Tail(paths), cfg, fault, t)
                ELSE RotateEach(st, Tail(paths), cfg, fault, t)

\* CleanupManager.checkOversizedLogs
checkOversizedLogs(st, cfg, fault, t) ==
  RotateEach(st, SelectSeq(readdirSync(st.files, LogsDir), EndsWithLog), cfg, fault, t)

\* CleanupManager.cleanupLogs
cleanupLogs(st, cfg, fault, t) ==
  LET swept == ProcessEach(st, SelectSeq(readdirSync(st.files, LogsDir), EndsWithLog),
                           CutoffDate(t, cfg), "logs", cfg, fault)
  IN  IF cfg.maxLogSizeMB # 0 THEN checkOversizedLogs(swept, cfg, fault, t) ELSE swept

\* CleanupManager.cleanupReports
cleanupReports(st, cfg, fault, t) ==
  ProcessEach(st, SelectSeq(readdirSync(st.files, ReportsDir), EndsWithReport),
              CutoffDate(t, cfg), "reports", cfg, fault)

\* CleanupManager.cleanupScreenshots
cleanupScreenshots(st, cfg, fault, t) ==
  ProcessEach(st, SelectSeq(readdirSync(st.files, ScreenshotsDir), EndsWithImage),
              CutoffDate(t, cfg), "screenshots", cfg, fault)

\* CleanupManager.performCleanup: the files it leaves and the object it returns
performCleanup(fs, cfg, fault, t) ==
  IF ~cfg.enabled
  THEN [files |-> fs, returned |-> [success |-> TRUE, disabled |-> TRUE, results |-> Absent]]
  ELSE LET st == cleanupScreenshots(
                   cleanupReports(
                     cleanupLogs([files |-> fs, results |-> NewResults], cfg, fault, t),
                     cfg, fault, t),
                   cfg, fault, t)
       IN  [files |-> st.files,
            returned |-> [success |-> TRUE, disabled |-> FALSE, results |-> Present(st.results)]]

\* config.paths: logs, reports, screenshots and data, in the order getDiskUsage
\* takes them
DiskDirectories == << "logs", "reports", "screenshots", "data" >>
DirectoryNames == {DiskDirectories[k] : k \in 1..Len(DiskDirectories)}

\* path.join(dirPath, file): the directory of a path
DirectoryOf(path) ==
  IF path \in {"logs/app.log", "logs/app.log.old", "logs/err.log", "logs/err.log.old"} THEN "logs"
  ELSE IF path = "reports/report.json" THEN "reports"
  ELSE IF path = "screenshots/shot.png" THEN "screenshots"
  ELSE "data"

RECURSIVE SumSizes(_, _)
SumSizes(fs, paths) ==
  IF paths = {} THEN 0
  ELSE LET path == CHOOSE q \in paths : TRUE
       IN  fs[path].size + SumSizes(fs, paths \ {path})

\* a count that takes only the files the directory's sweep takes by extension
calculateDirectorySizeOfSwept(fs, dirPath, cutoffDate, fault) ==
  LET counted == {path \in DOMAIN fs :
                    /\ DirectoryOf(path) = dirPath
                    /\ EndsWithLog(path) \/ EndsWithReport(path) \/ EndsWithImage(path)
                    /\ ~Fails(fault, path, "stat")}
  IN  [size |-> SumSizes(fs, counted),
       files |-> Cardinality(counted),
       oldFiles |-> Cardinality({path \in counted : fs[path].mtime < cutoffDate})]

\* CleanupManager.calculateDirectorySize: a file whose stat throws is skipped
calculateDirectorySize(fs, dirPath, cutoffDate, fault) ==
  LET counted == {path \in DOMAIN fs :
                    DirectoryOf(path) = dirPath /\ ~Fails(fault, path, "stat")}
  IN  [size |-> SumSizes(fs, counted),
       files |-> Cardinality(counted),
       oldFiles |-> Cardinality({path \in counted : fs[path].mtime < cutoffDate})]

RECURSIVE SumUsage(_, _, _)
SumUsage(usage, names, field) ==
  IF names = {} THEN 0
  ELSE LET name == CHOOSE d \in names : TRUE
       IN  usage[name][field] + SumUsage(usage, names \ {name}, field)

\* CleanupManager.getDiskUsage: the usage object, or null when reading a
\* directory throws
getDiskUsage(fs, dirs, cfg, t, fault) ==
  IF \E name \in dirs : Fails(fault, name, "readdir") THEN Absent
  ELSE LET usage == [name \in DirectoryNames |->
                       IF name \notin dirs THEN [size |-> 0, files |-> 0, oldFiles |-> 0]
                       ELSE calculateDirectorySize(fs, name, CutoffDate(t, cfg), fault)]
       IN  Present([total |-> SumUsage(usage, DirectoryNames, "size"),
                    directories |-> usage,
                    oldFiles |-> SumUsage(usage, DirectoryNames, "oldFiles")])

\* the monitor has not run a cleanup: nothing is known of the directories
NoCleanup ==
  /\ cleanupConfig \in {cfg \in CleanupConfigChoices : cfg.enabled /\ cfg.deleteEmptyLogs}
  /\ fileSystem = << >>
  /\ cleanupResults = Absent
  /\ sweep = Absent
  /\ directories = DirectoryNames

\* The registry as shipped serves one run; the edited registry serves MaxRuns
\* runs, which may overlap.
RegistryChoices ==
  { [registrations |-> Registrations, runs |-> 1],
    [registrations |-> DevelopmentRegistrations, runs |-> MaxRuns] }

Init ==
  /\ config \in ConfigChoices
  /\ \E c \in RegistryChoices :
        /\ registered = c.registrations
        /\ registry = RegisterAll(<< >>, c.registrations)
        /\ nextId = MaxRuns + 1 - c.runs
  /\ now = 0
  /\ activeTests = {}
  /\ testProgress = << >>
  /\ exec = << >>
  /\ timers = {}
  /\ test_runs = << >>
  /\ individual_tests = << >>
  /\ uptime_stats = << >>
  /\ incidents = << >>
  /\ reports = {}
  /\ sentAlerts = {}
  /\ faults = 0
  /\ NoCleanup

\* ------------------------------------------------- continuations of a run
\* The executor's steps share these endings.  Each names every variable of the
\* tracker, the executor and the report directory; the caller names the rest.

\* a loop that calls run() of every remaining check without awaiting the one
\* before it
EnterTestWithoutAwait(r, entries, keys, execs, e, i) ==
  /\ testProgress' = [entries EXCEPT ![r] =
         LoopTop(@, e.testInstances[e.totalTests].name, e.completedTests, e.totalTests)]
  /\ activeTests' = keys \cup {r}
  /\ exec' = [execs EXCEPT ![r] = [e EXCEPT !.pc = "run", !.i = e.totalTests]]
  /\ UNCHANGED << timers, reports >>

\* the loop body up to "await testInstance.run()" for the check at position i
EnterTest(r, entries, keys, execs, e, i) ==
  /\ testProgress' = [entries EXCEPT ![r] =
         LoopTop(@, e.testInstances[i].name, e.completedTests, e.totalTests)]
  /\ activeTests' = keys \cup {r}
  /\ exec' = [execs EXCEPT ![r] = [e EXCEPT !.pc = "run", !.i = i]]
  /\ UNCHANGED << timers, reports >>

\* after the loop: the summary, then processResults -> saveCompleteRun ->
\* saveTestRun, which issues its INSERT and awaits it
AfterLoop(r, entries, keys, execs, e) ==
  /\ testProgress' = entries
  /\ activeTests' = keys
  /\ exec' = [execs EXCEPT ![r] =
                [e EXCEPT !.pc = "saveTestRun", !.summary = Summary(e.tests)]]
  /\ UNCHANGED << timers, reports >>

\* saveReport
saveReport(files, r, runId) == files \cup {[run |-> r, runId |-> runId]}

\* processResults has returned: "Update progress", the eviction timer
Complete(r, e, files) ==
  /\ testProgress' = [testProgress EXCEPT ![r] = Completed(@, MonitorResults(e), now)]
  /\ activeTests' = activeTests \cup {r}
  /\ timers' = timers \cup {[id |-> r, at |-> now + EvictDelayMs]}
  /\ exec' = [exec EXCEPT ![r] = [e EXCEPT !.pc = "done"]]
  /\ reports' = files

\* main after runAllTests returned: the exit code
ExitCode(summary) == IF summary.failed > 0 THEN 1 ELSE 0

\* runAllTests returns this.results to main, which exits the process
Exit(r, execs, e, files) ==
  /\ exec' = [execs EXCEPT ![r] =
                [e EXCEPT !.pc = "exited", !.exitCode = ExitCode(e.summary)]]
  /\ reports' = files
  /\ UNCHANGED trackerVars

\* "await monitor.processResults()" returns to the executor that called it
Returned(r, e, files) ==
  IF e.caller = "manual" THEN Complete(r, e, files) ELSE Exit(r, exec, e, files)

\* the catch block of runEnhancedTests
Catch(r, entries, keys, execs, e) ==
  /\ testProgress' = [entries EXCEPT ![r] =
         IF r \in keys THEN Failed(@, "error", now) ELSE @]
  /\ activeTests' = keys
  /\ exec' = [execs EXCEPT ![r] = [e EXCEPT !.pc = "caught", !.error = "error"]]
  /\ UNCHANGED << timers, reports >>

\* the catch block of runAllTests, which then returns this.results
CatchAll(r, execs, e) == Exit(r, execs, [e EXCEPT !.error = "error"], reports)

\* processResults without its try/catch: the rejection reaches the executor
StoreFailedRethrows(r, e) ==
  IF e.caller = "manual"
  THEN Catch(r, testProgress, activeTests, exec, e)
  ELSE CatchAll(r, exec, e)

\* a catch block of processResults that writes no fallback report
StoreFailedNoReport(r, e) == Returned(r, e, reports)

\* saveCompleteRun rejected: the catch block of processResults writes the
\* fallback report and processResults returns normally
StoreFailed(r, e) == Returned(r, e, saveReport(reports, r, e.runId))

\* sendAlert without its try/catch: the rejection of sendMail reaches the
\* catch block of processResults and, rethrown there, the executor
AlertFailedRethrows(r, e) ==
  IF e.caller = "manual"
  THEN Catch(r, testProgress, activeTests, exec, e)
  ELSE CatchAll(r, exec, e)

\* sendMail rejected: the catch block of sendAlert logs, and sendAlert and
\* processResults return normally
AlertFailed(r, e) == Returned(r, e, reports)

\* ------------------------------------------------------------- the tracker
\* POST /api/run-manual-test-enhanced, with the part of runEnhancedTests that
\* runs before its first await.  prelude = "throw": the WebsiteMonitor
\* constructor or getTests throws.
StartManualTest(prelude) ==
  LET id == nextId
      entries == testProgress @@ (id :> NewEntry(id, now))
      keys == cleanUpOldTests(activeTests \cup {id}, entries, now)
      started == NewExec("manual", getTests(registry))
      execs == exec @@ (id :> started)
  IN  /\ nextId <= MaxRuns
      /\ nextId' = nextId + 1
      /\ \/ /\ prelude = "throw"
            /\ CanFail
            /\ faults' = faults + 1
            /\ Catch(id, entries, keys, execs,
                     [NewExec("manual", << >>) EXCEPT !.totalTests = Undefined])
         \/ /\ prelude = "ok"
            /\ faults' = faults
            /\ IF started.totalTests = 0
               THEN AfterLoop(id, entries, keys, execs, started)
               ELSE EnterTest(id, entries, keys, execs, started, 1)
      /\ UNCHANGED << config, cleanupVars, registered, registry, now, storeVars, sentAlerts >>

\* the response of a handler that awaits runEnhancedTests and lets its
\* exception through
StartResponseOfAwaited(id, prelude) ==
  IF prelude = "throw" THEN [code |-> 500, success |-> FALSE, testId |-> Undefined]
  ELSE [code |-> 200, success |-> TRUE, testId |-> id]

\* POST /api/run-manual-test-enhanced: the response.  runEnhancedTests is
\* called without await and catches what its set-up throws, so nothing reaches
\* the catch block of the handler.
StartResponse(id, prelude) == [code |-> 200, success |-> TRUE, testId |-> id]

\* cancel without the check of the entry's status
CancelOutcomeAnyStatus(id) ==
  IF id \notin activeTests THEN "not-found" ELSE "ok"

\* the outcome of cancel, decided on the map as the handler finds it
CancelOutcome(id) ==
  IF id \notin activeTests THEN "not-found"
  ELSE IF testProgress[id].status # "running" THEN "already-finished"
  ELSE "ok"

\* POST /api/cancel-test/:testId
CancelTest(id) ==
  /\ IF CancelOutcome(id) = "ok"
     THEN testProgress' = [testProgress EXCEPT ![id] = Cancelled(@, now)]
     ELSE testProgress' = testProgress
  /\ UNCHANGED << config, cleanupVars, registered, registry, now, nextId, activeTests, exec, timers, storeVars,
                  reports, sentAlerts, faults >>

\* GET /api/test-progress/:testId: the response
ProgressResponse(id) ==
  IF id \notin activeTests
  THEN [code |-> 404, success |-> FALSE, status |-> Null, progress |-> Undefined]
  ELSE [code |-> 200, success |-> TRUE, status |-> testProgress[id].status,
        progress |-> testProgress[id].progress]

\* GET /api/test-progress/:testId reads the map and changes nothing
GetTestProgress(id) ==
  /\ ProgressResponse(id).code \in {200, 404}
  /\ UNCHANGED vars

\* a timer callback that runs before its delay has passed
EvictionTimerEarly(tm) ==
  /\ tm \in timers
  /\ timers' = timers \ {tm}
  /\ activeTests' = activeTests \ {tm.id}
  /\ UNCHANGED << config, cleanupVars, registered, registry, now, nextId, testProgress, exec, storeVars, reports,
                  sentAlerts, faults >>

\* the setTimeout callback of a completed run; time has reached its deadline
EvictionTimer(tm) ==
  /\ tm \in timers
  /\ now' = Max(now, tm.at)
  /\ now' <= MaxTime
  /\ timers' = timers \ {tm}
  /\ activeTests' = activeTests \ {tm.id}
  /\ UNCHANGED << config, cleanupVars, registered, registry, nextId, testProgress, exec, storeVars, reports,
                  sentAlerts, faults >>

\* more than an hour passes, with an entry in the tracker that a later start can
\* sweep (after the last start the clock only moves to the timers' deadlines)
Tick ==
  /\ nextId <= MaxRuns
  /\ activeTests # {}
  /\ now + HourMs + 1 <= MaxTime
  /\ now' = now + HourMs + 1
  /\ UNCHANGED << config, cleanupVars, registered, registry, nextId, trackerVars, exec, storeVars, reports,
                  sentAlerts, faults >>

\* exactly an hour passes: an entry made at the earlier time is one hour old,
\* not more
TickHour ==
  /\ nextId <= MaxRuns
  /\ activeTests # {}
  /\ now + HourMs <= MaxTime
  /\ now' = now + HourMs
  /\ UNCHANGED << config, cleanupVars, registered, registry, nextId, trackerVars, exec, storeVars, reports,
                  sentAlerts, faults >>

\* ------------------------------------------------------------ the executor
\* "await testInstance.run()" resolves with a Result: the rest of the loop
\* body, and the next iteration up to its await or the code after the loop
TestReturns(r, status) ==
  /\ r \in DOMAIN exec
  /\ exec[r].caller = "manual"
  /\ exec[r].pc = "run"
  /\ LET e == exec[r]
         inst == e.testInstances[e.i]
         testResult == TestResult(inst, status)
         pushed == [e EXCEPT !.tests = Append(@, testResult)]
         counted == [pushed EXCEPT !.completedTests = @ + 1]
     IN  /\ status \in CheckClasses[inst.class].outcomes \ {"THROW"}
         /\ IF StopsSequence(testResult, config.stopOnCriticalFailure)
            THEN AfterLoop(r, testProgress, activeTests, exec, pushed)
            ELSE IF e.i < e.totalTests
                 THEN EnterTest(r, testProgress, activeTests, exec, counted, e.i + 1)
                 ELSE AfterLoop(r, testProgress, activeTests, exec, counted)
  /\ UNCHANGED << config, cleanupVars, registered, registry, now, nextId, storeVars, sentAlerts, faults >>

\* "await testInstance.run()" rejects: the catch block
TestThrows(r) ==
  /\ r \in DOMAIN exec
  /\ exec[r].caller = "manual"
  /\ exec[r].pc = "run"
  /\ "THROW" \in CheckClasses[exec[r].testInstances[exec[r].i].class].outcomes
  /\ CanFail
  /\ faults' = faults + 1
  /\ Catch(r, testProgress, activeTests, exec, exec[r])
  /\ UNCHANGED << config, cleanupVars, registered, registry, now, nextId, storeVars, sentAlerts >>

\* ------------------------------------------------- the scheduled executor
\* main: new WebsiteMonitor(), then runAllTests up to its first await.
\* prelude = "throw": getTests throws inside the try block of runAllTests.
\* prelude = "crash": the constructor throws outside the try block of main, and
\* the unhandledRejection handler exits with 1.
RunScheduled(prelude) ==
  LET id == nextId
      started == NewExec("scheduled", getTests(registry))
      unset == [NewExec("scheduled", << >>) EXCEPT !.totalTests = Undefined]
      execs == exec @@ (id :> started)
  IN  /\ nextId <= MaxRuns
      /\ nextId' = nextId + 1
      /\ \/ /\ prelude = "crash"
            /\ CanFail
            /\ faults' = faults + 1
            /\ exec' = [execs EXCEPT ![id] =
                          [unset EXCEPT !.pc = "exited", !.error = "error", !.exitCode = 1]]
            /\ UNCHANGED << trackerVars, reports >>
         \/ /\ prelude = "throw"
            /\ CanFail
            /\ faults' = faults + 1
            /\ CatchAll(id, execs, unset)
         \/ /\ prelude = "ok"
            /\ faults' = faults
            /\ IF started.totalTests = 0
               THEN AfterLoop(id, testProgress, activeTests, execs, started)
               ELSE /\ exec' = [execs EXCEPT ![id] = [started EXCEPT !.i = 1]]
                    /\ UNCHANGED << trackerVars, reports >>
      /\ UNCHANGED << config, cleanupVars, registered, registry, now, storeVars, sentAlerts >>

\* a runAllTests whose loop has no break
ScheduledTestReturnsWithoutBreak(r, status) ==
  /\ r \in DOMAIN exec
  /\ exec[r].caller = "scheduled"
  /\ exec[r].pc = "run"
  /\ LET e == exec[r]
         inst == e.testInstances[e.i]
         testResult == TestResult(inst, status)
         pushed == [e EXCEPT !.tests = Append(@, testResult)]
     IN  /\ status \in CheckClasses[inst.class].outcomes \ {"THROW"}
         /\ IF e.i = e.totalTests
            THEN AfterLoop(r, testProgress, activeTests, exec, pushed)
            ELSE /\ exec' = [exec EXCEPT ![r] = [pushed EXCEPT !.i = e.i + 1]]
                 /\ UNCHANGED << trackerVars, reports >>
  /\ UNCHANGED << config, cleanupVars, registered, registry, now, nextId, storeVars, sentAlerts, faults >>

\* "await testInstance.run()" resolves in runAllTests: the rest of the loop body
\* and the next iteration up to its await, or the code after the loop
ScheduledTestReturns(r, status) ==
  /\ r \in DOMAIN exec
  /\ exec[r].caller = "scheduled"
  /\ exec[r].pc = "run"
  /\ LET e == exec[r]
         inst == e.testInstances[e.i]
         testResult == TestResult(inst, status)
         pushed == [e EXCEPT !.tests = Append(@, testResult)]
     IN  /\ status \in CheckClasses[inst.class].outcomes \ {"THROW"}
         /\ IF StopsSequence(testResult, config.stopOnCriticalFailure)
               \/ e.i = e.totalTests
            THEN AfterLoop(r, testProgress, activeTests, exec, pushed)
            ELSE /\ exec' = [exec EXCEPT ![r] = [pushed EXCEPT !.i = e.i + 1]]
                 /\ UNCHANGED << trackerVars, reports >>
  /\ UNCHANGED << config, cleanupVars, registered, registry, now, nextId, storeVars, sentAlerts, faults >>

\* "await testInstance.run()" rejects in runAllTests
ScheduledTestThrows(r) ==
  /\ r \in DOMAIN exec
  /\ exec[r].caller = "scheduled"
  /\ exec[r].pc = "run"
  /\ "THROW" \in CheckClasses[exec[r].testInstances[exec[r].i].class].outcomes
  /\ CanFail
  /\ faults' = faults + 1
  /\ CatchAll(r, exec, exec[r])
  /\ UNCHANGED << config, cleanupVars, registered, registry, now, nextId, storeVars, sentAlerts >>

\* process.exit ended the process while statements that saveCompleteRun did not
\* await were still queued on its connection: they are never executed
ProcessGone(r) ==
  /\ r \in DOMAIN exec
  /\ exec[r].pc = "exited"
  /\ exec[r].queue # << >>
  /\ exec' = [exec EXCEPT ![r].queue = << >>]
  /\ UNCHANGED << config, cleanupVars, registered, registry, now, nextId, trackerVars, storeVars, reports,
                  sentAlerts, faults >>

\* ---------------------------------------------------------------- the store
\* the row saveTestRun inserts
RunRow(id, e) ==
  [id |-> id, total_tests |-> e.summary.total, passed_tests |-> e.summary.passed,
   failed_tests |-> e.summary.failed, success_rate |-> e.summary.successRate,
   triggered_by |-> "scheduled"]

\* the row saveIndividualTest inserts
TestRow(runId, test) ==
  [run_id |-> runId, test_name |-> test.name, status |-> test.status,
   critical |-> IF test.critical THEN 1 ELSE 0, details |-> test.details]

\* the row createIncident inserts
IncidentRow(id, name, t) ==
  [id |-> id, test_name |-> name, start_time |-> t, end_time |-> Undefined,
   status |-> "open", resolved_by |-> Null, resolution_notes |-> Null]

\* testResults.tests.filter(t => t.critical && t.status !== 'PASS')
IsFailedCritical(t) == t.critical /\ t.status # "PASS"

\* an INSERT of the day's row on a table without UNIQUE(date)
InsertDay(stats, today) ==
  Append(stats, [date |-> today, total_checks |-> 0, successful_checks |-> 0])

\* INSERT OR IGNORE INTO uptime_stats (date, total_checks, successful_checks, ...)
\* VALUES (today, 0, 0, 100.0): UNIQUE(date) makes it a no-op when the day has a row
InsertOrIgnoreDay(stats, today) ==
  IF \E k \in 1..Len(stats) : stats[k].date = today
  THEN stats
  ELSE Append(stats, [date |-> today, total_checks |-> 0, successful_checks |-> 0])

\* UPDATE uptime_stats SET total_checks = total_checks + 1,
\* successful_checks = successful_checks + ? WHERE date = ?
UpdateDay(stats, today, success) ==
  [k \in 1..Len(stats) |->
     IF stats[k].date = today
     THEN [stats[k] EXCEPT !.total_checks = @ + 1,
                           !.successful_checks = @ + (IF success THEN 1 ELSE 0)]
     ELSE stats[k]]

\* updateUptimeStats: INSERT OR IGNORE of today's row, then the UPDATE
updateUptimeStats(stats, today, success, insertOk, updateOk) ==
  LET inserted == IF insertOk THEN InsertOrIgnoreDay(stats, today) ELSE stats
  IN  IF updateOk THEN UpdateDay(inserted, today, success) ELSE inserted

\* the alert condition of processResults
AlertDue(summary, cfg) ==
  IF summary.failed > 0 /\ cfg.sendOnFailure THEN TRUE ELSE cfg.sendOnSuccess

\* saveTestRun's INSERT completes.  On success saveCompleteRun issues one INSERT
\* per Result and awaits them all (with no Result, it goes on to the uptime update).
SaveTestRun(r, ok) ==
  /\ r \in DOMAIN exec
  /\ exec[r].pc = "saveTestRun"
  /\ LET e == exec[r]
         runId == Len(test_runs) + 1
         inserts == [i \in 1..Len(e.tests) |->
                       [op |-> "test", row |-> TestRow(runId, e.tests[i])]]
     IN  IF ok
         THEN /\ test_runs' = Append(test_runs, RunRow(runId, e))
              /\ exec' = [exec EXCEPT ![r] =
                    [e EXCEPT !.dbRunId = runId, !.queue = inserts,
                              !.pc = IF inserts = << >> THEN "updateUptime" ELSE "saveTests"]]
              /\ faults' = faults
              /\ UNCHANGED << trackerVars, reports >>
         ELSE /\ CanFail
              /\ faults' = faults + 1
              /\ test_runs' = test_runs
              /\ StoreFailed(r, e)
  /\ UNCHANGED << config, cleanupVars, registered, registry, now, nextId, individual_tests, uptime_stats,
                  incidents, sentAlerts >>

\* the connection of run r executes its next queued statement.  While
\* saveCompleteRun awaits Promise.all, the first failure rejects it and the last
\* success resolves it; statements left in the queue still execute later.
DbExec(r, ok) ==
  /\ r \in DOMAIN exec
  /\ exec[r].queue # << >>
  /\ LET e == exec[r]
         stmt == Head(e.queue)
         popped == [e EXCEPT !.queue = Tail(@)]
     IN  /\ IF ok THEN faults' = faults ELSE CanFail /\ faults' = faults + 1
         /\ individual_tests' = IF ok /\ stmt.op = "test"
                                THEN Append(individual_tests, stmt.row)
                                ELSE individual_tests
         /\ incidents' = IF ok /\ stmt.op = "incident"
                         THEN Append(incidents,
                                IncidentRow(Len(incidents) + 1, stmt.name, stmt.start_time))
                         ELSE incidents
         /\ IF e.pc = "saveTests" /\ ~ok
            THEN StoreFailed(r, popped)
            ELSE /\ exec' = [exec EXCEPT ![r] =
                      IF e.pc = "saveTests" /\ popped.queue = << >>
                      THEN [popped EXCEPT !.pc = "updateUptime"]
                      ELSE popped]
                 /\ UNCHANGED << trackerVars, reports >>
  /\ UNCHANGED << config, cleanupVars, registered, registry, now, nextId, test_runs, uptime_stats, sentAlerts >>

\* the statements of updateUptimeStats complete.  When the UPDATE succeeds
\* saveCompleteRun queues the incident INSERTs without awaiting them and returns
\* the run id; processResults writes the report and, when an alert is due and
\* mail is configured, awaits sendMail.
UpdateUptime(r, insertOk, updateOk) ==
  /\ r \in DOMAIN exec
  /\ exec[r].pc = "updateUptime"
  /\ LET e == exec[r]
         failedCritical == SelectSeq(e.tests, IsFailedCritical)
         saved == [e EXCEPT !.runId = e.dbRunId,
                     !.queue = [i \in 1..Len(failedCritical) |->
                        [op |-> "incident", name |-> failedCritical[i].name,
                         start_time |-> now]]]
     IN  /\ uptime_stats' = updateUptimeStats(uptime_stats, Today(now),
                               e.summary.passed > 0, insertOk, updateOk)
         /\ IF insertOk /\ updateOk THEN faults' = faults
            ELSE CanFail /\ faults' = faults + 1
         /\ IF ~updateOk
            THEN StoreFailed(r, e)
            ELSE IF AlertDue(e.summary, config) /\ config.smtpConfigured
                 THEN /\ exec' = [exec EXCEPT ![r] = [saved EXCEPT !.pc = "sendAlert"]]
                      /\ reports' = saveReport(reports, r, saved.runId)
                      /\ UNCHANGED trackerVars
                 ELSE Returned(r, saved, saveReport(reports, r, saved.runId))
  /\ UNCHANGED << config, cleanupVars, registered, registry, now, nextId, test_runs, individual_tests, incidents,
                  sentAlerts >>

\* "await transporter.sendMail" settles; sendAlert catches a failure
SendAlert(r, ok) ==
  /\ r \in DOMAIN exec
  /\ exec[r].pc = "sendAlert"
  /\ IF ok THEN faults' = faults ELSE CanFail /\ faults' = faults + 1
  /\ sentAlerts' = IF ok THEN sentAlerts \cup {r} ELSE sentAlerts
  /\ IF ok THEN Returned(r, exec[r], reports) ELSE AlertFailed(r, exec[r])
  /\ UNCHANGED << config, cleanupVars, registered, registry, now, nextId, storeVars >>

\* ------------------------------------------------------- reading the store
\* SQL "a || b": NULL when either side is NULL
Concat(a, b) == IF a = Absent \/ b = Absent THEN Absent ELSE Present(ValueOf(a) \o ValueOf(b))

\* i.test_name || '|' || i.status || '|' || i.details
TestColumn(row) ==
  Concat(Concat(Concat(Concat(Present(<<row.test_name>>), Present(<<"|">>)),
                       Present(<<row.status>>)), Present(<<"|">>)), row.details)

IsPresent(opt) == opt # Absent

RECURSIVE Join(_, _)
Join(texts, sep) ==
  IF Len(texts) = 1 THEN Head(texts)
  ELSE Head(texts) \o sep \o Join(Tail(texts), sep)

\* SQL GROUP_CONCAT(x, sep): the non-NULL values joined by sep, NULL when there
\* is none
GROUP_CONCAT(values, sep) ==
  LET kept == SelectSeq(values, IsPresent)
  IN  IF kept = << >> THEN Absent
      ELSE Present(Join([k \in 1..Len(kept) |-> ValueOf(kept[k])], sep))

\* String.prototype.split with a string separator
RECURSIVE split(_, _)
split(s, sep) ==
  LET at == {i \in 1..(Len(s) - Len(sep) + 1) : SubSeq(s, i, i + Len(sep) - 1) = sep}
  IN  IF at = {} THEN << s >>
      ELSE LET i == CHOOSE j \in at : \A k \in at : j <= k
           IN  << SubSeq(s, 1, i - 1) >> \o split(SubSeq(s, i + Len(sep), Len(s)), sep)

\* const [name, status, details] = testStr.split('|')
ParsedTest(testStr) ==
  LET parts == split(testStr, <<"|">>)
      part(k) == IF k <= Len(parts) THEN Present(parts[k]) ELSE Absent
  IN  [name |-> part(1), status |-> part(2), details |-> part(3)]

\* Database.parseRunDetails
parseRunDetails(row) ==
  IF row = Absent \/ ValueOf(row).tests = Absent THEN row
  ELSE LET testStrs == split(ValueOf(ValueOf(row).tests), <<";", ";">>)
       IN  Present([ValueOf(row) EXCEPT !.tests =
                      Present([k \in 1..Len(testStrs) |-> ParsedTest(testStrs[k])])])

\* the SELECT of getRunDetails: the run's row LEFT JOINed with its rows of
\* individual_tests (in the order of the table), grouped into one row
SelectRun(runs, tests, runId) ==
  IF runId \notin 1..Len(runs) THEN Absent
  ELSE LET mine(row) == row.run_id = runId
           joined == SelectSeq(tests, mine)
       IN  Present([run |-> runs[runId],
                    tests |-> GROUP_CONCAT([k \in 1..Len(joined) |-> TestColumn(joined[k])],
                                           <<";", ";">>)])

\* Database.getRunDetails
getRunDetails(runs, tests, runId) == parseRunDetails(SelectRun(runs, tests, runId))

\* "value || fallback": the empty string stands for every falsy argument
OrDefault(value, fallback) == IF value = "" THEN fallback ELSE value

\* a resolve that removes the incident instead of marking it
resolveIncidentDeletes(rows, incidentId, resolvedBy, notes, t) ==
  LET others(row) == row.id # incidentId
  IN  [incidents |-> SelectSeq(rows, others),
       returned |-> Len(SelectSeq(rows, others)) < Len(rows)]

\* Database.resolveIncident: UPDATE incidents SET status = 'resolved', end_time,
\* resolved_by, resolution_notes WHERE id = ?; resolves this.changes > 0
resolveIncident(rows, incidentId, resolvedBy, notes, t) ==
  LET matches(k) == rows[k].id = incidentId
      changes == Cardinality({k \in 1..Len(rows) : matches(k)})
  IN  [incidents |-> [k \in 1..Len(rows) |->
                        IF matches(k)
                        THEN [rows[k] EXCEPT !.status = "resolved", !.end_time = t,
                                !.resolved_by = OrDefault(resolvedBy, "System"),
                                !.resolution_notes = OrDefault(notes, "Resolved via dashboard")]
                        ELSE rows[k]],
       returned |-> changes > 0]

\* the ids a caller may name: every id the table can hold and one it never does
MaxIncidents == 3
IncidentIds == 0..MaxIncidents

\* the arguments a caller gives: a name and notes, or neither
ResolveArguments == {[resolvedBy |-> "", notes |-> ""], [resolvedBy |-> "ops", notes |-> "fixed"]}

\* a call of resolveIncident; a failed UPDATE rejects and changes nothing
ResolveIncident(incidentId, args, ok) ==
  /\ IF ok THEN faults' = faults ELSE CanFail /\ faults' = faults + 1
  /\ incidents' = IF ok
                  THEN resolveIncident(incidents, incidentId, args.resolvedBy, args.notes,
                                       now).incidents
                  ELSE incidents
  /\ UNCHANGED << config, cleanupVars, registered, registry, now, nextId, trackerVars, exec, test_runs,
                  individual_tests, uptime_stats, reports, sentAlerts >>

\* ORDER BY start_time DESC: rows of equal start_time stay in table order
OrderByStartTimeDesc(rows) ==
  LET place(k) == Cardinality({j \in 1..Len(rows) :
                     \/ rows[j].start_time > rows[k].start_time
                     \/ rows[j].start_time = rows[k].start_time /\ j <= k})
  IN  [p \in 1..Len(rows) |-> rows[CHOOSE k \in 1..Len(rows) : place(k) = p]]

\* Database.getIncidents: SELECT * FROM incidents [WHERE status = ?] ORDER BY
\* start_time DESC; the WHERE clause is added "if (status)"
getIncidents(rows, status) ==
  LET matching(row) == row.status = status
  IN  OrderByStartTimeDesc(IF status # "" THEN SelectSeq(rows, matching) ELSE rows)

\* the filters a caller passes
StatusFilters == {"open", "resolved", "all"}

\* GET /api/incidents?status=... and the export's getIncidents('all') read the
\* table and change nothing; a failed query resolves []
GetIncidents(status, ok) ==
  /\ Len(IF ok THEN getIncidents(incidents, status) ELSE << >>) <= Len(incidents)
  /\ UNCHANGED vars

\* ROUND(successful_checks * 100.0 / total_checks, 2), in hundredths of a
\* percent; a division by zero gives NULL
UptimePercentage(row) ==
  IF row.total_checks = 0 THEN Absent
  ELSE Present(MathRound(10000 * row.successful_checks, row.total_checks))

\* an ORDER BY date that is ascending
OrderByDateAsc(rows) ==
  LET place(k) == Cardinality({j \in 1..Len(rows) :
                     \/ rows[j].date < rows[k].date
                     \/ rows[j].date = rows[k].date /\ j <= k})
  IN  [p \in 1..Len(rows) |-> rows[CHOOSE k \in 1..Len(rows) : place(k) = p]]

\* ORDER BY date DESC
OrderByDateDesc(rows) ==
  LET place(k) == Cardinality({j \in 1..Len(rows) :
                     \/ rows[j].date > rows[k].date
                     \/ rows[j].date = rows[k].date /\ j <= k})
  IN  [p \in 1..Len(rows) |-> rows[CHOOSE k \in 1..Len(rows) : place(k) = p]]

\* Database.getUptimeStats: SELECT date, total_checks, successful_checks,
\* ROUND(...) AS uptime_percentage FROM uptime_stats
\* WHERE date >= date('now', '-<days> days') ORDER BY date DESC
getUptimeStats(stats, today, days) ==
  LET inWindow(row) == row.date >= today - days
      rows == OrderByDateDesc(SelectSeq(stats, inWindow))
  IN  [p \in 1..Len(rows) |->
         [date |-> rows[p].date, total_checks |-> rows[p].total_checks,
          successful_checks |-> rows[p].successful_checks,
          uptime_percentage |-> UptimePercentage(rows[p])]]

\* the windows a caller asks for; 30 is the default
DaysChoices == {1, 2, 30}

\* GET /api/uptime?days=... reads the table and changes nothing; a failed query
\* is answered with status 500
GetUptimeStats(days, ok) ==
  /\ Len(IF ok THEN getUptimeStats(uptime_stats, Today(now), days) ELSE << >>)
        <= Len(uptime_stats)
  /\ UNCHANGED vars

\* GET /api/run/:id
RunResponse(id) ==
  LET run == getRunDetails(test_runs, individual_tests, id)
  IN  IF run = Absent THEN [code |-> 404, body |-> Absent] ELSE [code |-> 200, body |-> run]

\* GET /api/run/:id reads the store and changes nothing
GetRunDetails(id) ==
  /\ RunResponse(id).code \in {200, 404}
  /\ UNCHANGED vars

\* --------------------------------------------------------- specification
\* the handlers of the tracker, apart from the passage of time
TrackerNext ==
  \/ \E prelude \in {"ok", "throw"} : StartManualTest(prelude)
  \/ \E id \in KnownOrUnknownIds : CancelTest(id)
  \/ \E id \in KnownOrUnknownIds : GetTestProgress(id)

\* the check loop
LoopNext ==
  \/ \E r \in RunIds, status \in {"PASS", "FAIL", "SKIP"} : TestReturns(r, status)
  \/ \E r \in RunIds : TestThrows(r)

\* the scheduled runs, each a process of its own on the same store and reports
ScheduledNext ==
  \/ \E prelude \in {"ok", "throw", "crash"} : RunScheduled(prelude)
  \/ \E r \in RunIds, status \in {"PASS", "FAIL", "SKIP"} : ScheduledTestReturns(r, status)
  \/ \E r \in RunIds : ScheduledTestThrows(r)
  \/ \E r \in RunIds : ProcessGone(r)

\* Runs within the first minutes of the server: no timer is due and no entry is
\* old; every statement and the mail may fail.
Next ==
  \/ TrackerNext
  \/ LoopNext
  \/ ScheduledNext
  \/ \E r \in RunIds, ok \in BOOLEAN : SaveTestRun(r, ok)
  \/ \E r \in RunIds, ok \in BOOLEAN : DbExec(r, ok)
  \/ \E r \in RunIds, insertOk \in BOOLEAN, updateOk \in BOOLEAN :
        UpdateUptime(r, insertOk, updateOk)
  \/ \E r \in RunIds, ok \in BOOLEAN : SendAlert(r, ok)

Spec == Init /\ [][Next]_vars

\* Runs over more than an hour: timers fire and entries age; the store and the
\* mail server work.
NextTime ==
  \/ TrackerNext
  \/ LoopNext
  \/ \E tm \in timers : EvictionTimer(tm)
  \/ Tick
  \/ TickHour
  \/ \E r \in RunIds : SaveTestRun(r, TRUE)
  \/ \E r \in RunIds : DbExec(r, TRUE)
  \/ \E r \in RunIds : UpdateUptime(r, TRUE, TRUE)
  \/ \E r \in RunIds : SendAlert(r, TRUE)

SpecTime == Init /\ [][NextTime]_vars

TypeOK ==
  /\ activeTests \subseteq DOMAIN testProgress
  /\ DOMAIN testProgress = {r \in DOMAIN exec : exec[r].caller = "manual"}
  /\ nextId \in 1..(MaxRuns + 1)
  /\ DOMAIN exec \subseteq RunIds

\* A registry of many checks that pass, the last of which may also throw; one
\* run is started.
LargeRegistrySize == 200

LargeRegistrations ==
  [i \in 1..LargeRegistrySize |->
     [class |-> IF i < LargeRegistrySize THEN "PerformanceTest" ELSE "LoginPlatformTest",
      options |-> [enabled |-> TRUE, order |-> i]]]

InitLarge ==
  /\ config \in ConfigChoices
  /\ registered = LargeRegistrations
  /\ registry = RegisterAll(<< >>, LargeRegistrations)
  /\ now = 0
  /\ nextId = MaxRuns
  /\ activeTests = {}
  /\ testProgress = << >>
  /\ exec = << >>
  /\ timers = {}
  /\ test_runs = << >>
  /\ individual_tests = << >>
  /\ uptime_stats = << >>
  /\ incidents = << >>
  /\ reports = {}
  /\ sentAlerts = {}
  /\ faults = 0
  /\ NoCleanup

NextLarge ==
  \/ TrackerNext
  \/ \E r \in RunIds : TestReturns(r, "PASS")
  \/ \E r \in RunIds : TestThrows(r)
  \/ \E r \in RunIds : SaveTestRun(r, TRUE)
  \/ \E r \in RunIds : DbExec(r, TRUE)
  \/ \E r \in RunIds : UpdateUptime(r, TRUE, TRUE)

SpecLarge == InitLarge /\ [][NextLarge]_vars

\* Registries of up to MaxRegistrations entries, made by any calls of register;
\* one run, manual or scheduled, asks for the checks.
MaxRegistrations == 3

\* the options of a call: enabled and order given, or one of them left out
RegisterOptions ==
  [enabled : BOOLEAN, order : {0, 10, 20}] \cup {[order |-> 10], [enabled |-> TRUE]}

RegisterCalls == [class : {"AvailabilityTest", "PerformanceTest"}, options : RegisterOptions]

InitRegistry ==
  /\ config \in ConfigChoices
  /\ registered \in UNION {[1..n -> RegisterCalls] : n \in 0..MaxRegistrations}
  /\ registry = RegisterAll(<< >>, registered)
  /\ now = 0
  /\ nextId = MaxRuns
  /\ activeTests = {}
  /\ testProgress = << >>
  /\ exec = << >>
  /\ timers = {}
  /\ test_runs = << >>
  /\ individual_tests = << >>
  /\ uptime_stats = << >>
  /\ incidents = << >>
  /\ reports = {}
  /\ sentAlerts = {}
  /\ faults = 0
  /\ NoCleanup

NextRegistry ==
  \/ \E prelude \in {"ok", "throw"} : StartManualTest(prelude)
  \/ \E prelude \in {"ok", "throw", "crash"} : RunScheduled(prelude)

SpecRegistry == InitRegistry /\ [][NextRegistry]_vars

\* saveCompleteRun called with the Results of any run: the first n shipped
\* checks were registered and ran to exhaustion, each setting details to any
\* text or leaving it unset.
MaxStoredResults == 2

DetailsChoices == {Absent} \cup {Present(t) : t \in Texts}

InitStore ==
  /\ config \in ConfigChoices
  /\ \E n \in 0..MaxStoredResults :
        /\ registered = SubSeq(Registrations, 1, n)
        /\ registry = RegisterAll(<< >>, registered)
        /\ \E statuses \in [1..n -> {"PASS", "FAIL"}], details \in [1..n -> DetailsChoices] :
              LET insts == getTests(registry)
                  tests == [k \in 1..n |->
                              [TestResult(insts[k], statuses[k]) EXCEPT !.details = details[k]]]
              IN  /\ \A k \in 1..n :
                        /\ statuses[k] \in CheckClasses[insts[k].class].outcomes
                        /\ k < n => ~StopsSequence(tests[k], config.stopOnCriticalFailure)
                  /\ exec = (1 :> [NewExec("scheduled", insts) EXCEPT
                                     !.i = n, !.tests = tests, !.summary = Summary(tests),
                                     !.pc = "saveTestRun"])
  /\ now = 0
  /\ nextId = MaxRuns + 1
  /\ activeTests = {}
  /\ testProgress = << >>
  /\ timers = {}
  /\ test_runs = << >>
  /\ individual_tests = << >>
  /\ uptime_stats = << >>
  /\ incidents = << >>
  /\ reports = {}
  /\ sentAlerts = {}
  /\ faults = 0
  /\ NoCleanup

NextStore ==
  \/ \E r \in RunIds, ok \in BOOLEAN : SaveTestRun(r, ok)
  \/ \E r \in RunIds, ok \in BOOLEAN : DbExec(r, ok)
  \/ \E r \in RunIds, insertOk \in BOOLEAN, updateOk \in BOOLEAN :
        UpdateUptime(r, insertOk, updateOk)
  \/ \E r \in RunIds, ok \in BOOLEAN : SendAlert(r, ok)
  \/ \E r \in RunIds : ProcessGone(r)
  \/ \E id \in KnownOrUnknownIds : GetRunDetails(id)

SpecStore == InitStore /\ [][NextStore]_vars

\* Scheduled runs over several days, on the store the dashboard reads and
\* resolves incidents in.
MaxDays == 2

\* a day passes
TickDay ==
  /\ now + DayMs <= MaxDays * DayMs
  /\ now' = now + DayMs
  /\ UNCHANGED << config, cleanupVars, registered, registry, nextId, trackerVars, exec, storeVars, reports,
                  sentAlerts, faults >>

NextHistory ==
  \/ ScheduledNext
  \/ TickDay
  \/ \E r \in RunIds, ok \in BOOLEAN : SaveTestRun(r, ok)
  \/ \E r \in RunIds, ok \in BOOLEAN : DbExec(r, ok)
  \/ \E r \in RunIds, insertOk \in BOOLEAN, updateOk \in BOOLEAN :
        UpdateUptime(r, insertOk, updateOk)
  \/ \E r \in RunIds, ok \in BOOLEAN : SendAlert(r, ok)
  \/ \E days \in DaysChoices, ok \in BOOLEAN : GetUptimeStats(days, ok)

SpecHistory == Init /\ [][NextHistory]_vars

\* The scheduler starts a run when the process of the previous one has ended.
RunScheduledAlone ==
  /\ \A r \in DOMAIN exec : exec[r].pc = "exited" /\ exec[r].queue = << >>
  /\ RunScheduled("ok")

\* Scheduled runs on different days open incidents, which the dashboard
\* resolves; the statements of a run succeed.
NextIncidents ==
  \/ RunScheduledAlone
  \/ TickDay
  \/ \E r \in RunIds, status \in {"PASS", "FAIL", "SKIP"} : ScheduledTestReturns(r, status)
  \/ \E r \in RunIds : SaveTestRun(r, TRUE)
  \/ \E r \in RunIds : DbExec(r, TRUE)
  \/ \E r \in RunIds : UpdateUptime(r, TRUE, TRUE)
  \/ \E r \in RunIds : SendAlert(r, TRUE)
  \/ \E id \in IncidentIds, args \in ResolveArguments, ok \in BOOLEAN :
        ResolveIncident(id, args, ok)
  \/ \E status \in StatusFilters, ok \in BOOLEAN : GetIncidents(status, ok)

SpecIncidents == Init /\ [][NextIncidents]_vars

\* ------------------------------------------------------------------ claims
\* every run, manual or scheduled
Started == DOMAIN exec

\* the manual runs: the runs that were given an entry
Manual == DOMAIN testProgress

\* the check loop of run r is over and its summary has been computed
PastLoop(r) ==
  \/ exec[r].pc \in {"saveTestRun", "saveTests", "updateUptime", "sendAlert", "done"}
  \/ exec[r].pc = "exited" /\ exec[r].error = Null

\* the rows of individual_tests that belong to run r
RowsOf(r) ==
  {i \in 1..Len(individual_tests) : individual_tests[i].run_id = exec[r].dbRunId}

RECURSIVE CountStatus(_, _)
CountStatus(tests, status) ==
  IF tests = << >> THEN 0
  ELSE (IF Head(tests).status = status THEN 1 ELSE 0) + CountStatus(Tail(tests), status)

\* C1: with stopOnCriticalFailure set, a critical check that returned FAIL is the
\* last Result of its run, manual or scheduled: no later check is in flight or was
\* run, and no row of a later check is stored for the run.
C1_CriticalFailStops ==
  config.stopOnCriticalFailure =>
    \A r \in Started : \A k \in 1..Len(exec[r].tests) :
      (exec[r].tests[k].critical /\ exec[r].tests[k].status = "FAIL") =>
        /\ k = Len(exec[r].tests)
        /\ exec[r].i = k
        /\ exec[r].pc # "run"
        /\ \A j \in RowsOf(r) : \A m \in (k + 1)..exec[r].totalTests :
             individual_tests[j].test_name # exec[r].testInstances[m].name

C1_Witness ==
  \E r \in Started :
    /\ config.stopOnCriticalFailure
    /\ exec[r].pc = "done"
    /\ Len(exec[r].tests) = 1
    /\ exec[r].tests[1].critical /\ exec[r].tests[1].status = "FAIL"
    /\ exec[r].totalTests > 1
    /\ RowsOf(r) # {}

\* C2: once an entry is cancelled its status stays cancelled.
C2_CancelledIsFinal ==
  [][\A r \in DOMAIN testProgress :
       testProgress[r].status = "cancelled" => testProgress'[r].status = "cancelled"]_vars

\* C3: while an entry is cancelled the executor starts no further check and does
\* not update currentTest.
C3_NoCheckAfterCancel ==
  [][\A r \in DOMAIN testProgress :
       testProgress[r].status = "cancelled" =>
         /\ exec'[r].i = exec[r].i
         /\ testProgress'[r].currentTest = testProgress[r].currentTest]_vars

\* C4: a run whose entry was cancelled while a check was in flight never reaches
\* the store: the executor does not go on to saveCompleteRun (whose first
\* statement inserts the Run row) for it.
C4_CancelledNotPersisted ==
  [][\A r \in Manual :
       (testProgress[r].status = "cancelled" /\ exec[r].pc = "run") =>
         exec'[r].pc # "saveTestRun"]_vars

\* C5: progress is within 0..100, and is 100 exactly when the status is completed.
C5_ProgressBounds ==
  \A r \in DOMAIN testProgress :
    /\ testProgress[r].progress \in 0..100
    /\ (testProgress[r].progress = 100) <=> (testProgress[r].status = "completed")

\* C6: once the loop of a run, manual or scheduled, has ended, total is the number of Results, passed
\* and failed count the PASS and the FAIL Results, total = passed + failed + skipped,
\* and successRate is passed/total*100 rounded to two decimals (0 for no Result);
\* the Run row and the entry's results carry the same summary.
SummaryRight(summary, tests) ==
  /\ summary.total = Len(tests)
  /\ summary.passed = CountStatus(tests, "PASS")
  /\ summary.failed = CountStatus(tests, "FAIL")
  /\ summary.total = summary.passed + summary.failed + CountStatus(tests, "SKIP")
  /\ IF summary.total = 0 THEN summary.successRate = 0
     ELSE /\ 2 * (summary.successRate * summary.total - summary.passed * 10000)
               <= summary.total
          /\ 2 * (summary.passed * 10000 - summary.successRate * summary.total)
               < summary.total

C6_SummaryCounts ==
  \A r \in Started :
    /\ PastLoop(r) => SummaryRight(exec[r].summary, exec[r].tests)
    /\ r \in Manual =>
         \A res \in testProgress[r].results : SummaryRight(res.summary, res.tests)
    /\ exec[r].dbRunId # Undefined =>
         LET row == test_runs[exec[r].dbRunId]
         IN  SummaryRight([total |-> row.total_tests, passed |-> row.passed_tests,
                           failed |-> row.failed_tests,
                           successRate |-> row.success_rate], exec[r].tests)

C6_Witness ==
  \E r \in Manual :
    /\ exec[r].pc = "done"
    /\ CountStatus(exec[r].tests, "SKIP") = 1
    /\ CountStatus(exec[r].tests, "PASS") = 1
    /\ exec[r].summary.successRate = 5000
    /\ testProgress[r].results # {}

\* C7: cancel answers not-found exactly when the map has no entry for the id,
\* already-finished exactly when the entry is not running, and ok exactly when it
\* is running; only ok changes anything, and it sets status cancelled, endTime
\* and cancelledBy and nothing else.
C7_OutcomeRight(id) ==
  LET out == CancelOutcome(id)
  IN  /\ out \in {"not-found", "already-finished", "ok"}
      /\ (out = "not-found") <=> (id \notin activeTests)
      /\ (out = "already-finished") <=>
           (id \in activeTests /\ testProgress[id].status \in {"completed", "failed", "cancelled"})
      /\ (out = "ok") <=> (id \in activeTests /\ testProgress[id].status = "running")

C7_CancelStep(id) ==
  CancelTest(id) =>
    /\ activeTests' = activeTests
    /\ \A r \in DOMAIN testProgress : r # id => testProgress'[r] = testProgress[r]
    /\ IF id \in activeTests /\ testProgress[id].status = "running"
       THEN /\ testProgress'[id].status = "cancelled"
            /\ testProgress'[id].endTime = now
            /\ testProgress'[id].cancelledBy # Null
            /\ testProgress'[id] = [testProgress[id] EXCEPT
                   !.status = testProgress'[id].status,
                   !.endTime = testProgress'[id].endTime,
                   !.cancelledBy = testProgress'[id].cancelledBy]
       ELSE testProgress' = testProgress

C7_CancelOutcomes ==
  /\ [](\A id \in KnownOrUnknownIds : C7_OutcomeRight(id))
  /\ [][\A id \in KnownOrUnknownIds : C7_CancelStep(id)]_vars

C7_Witness ==
  \E r \in Manual :
    /\ testProgress[r].status = "cancelled"
    /\ testProgress[r].cancelledBy = "unknown"
    /\ testProgress[r].endTime = now
    /\ CancelOutcome(r) = "already-finished"
    /\ CancelOutcome(0) = "not-found"

\* the first check of run r is in flight
FirstCheckInFlight(r) == exec[r].pc = "run" /\ exec[r].i = 1

\* C8 as stated: a poll made while the first check is in flight answers status
\* running and progress 0.
C8_PollBeforeFirstCheck ==
  \A r \in Manual :
    FirstCheckInFlight(r) =>
      /\ ProgressResponse(r).status = "running"
      /\ ProgressResponse(r).progress = 0

\* C8 amended: the start handler leaves an entry with progress 0 under the new id,
\* running unless the executor's set-up threw (then failed); a poll made while the
\* first check is in flight answers progress 0 with status running, or cancelled
\* after a cancel, or not-found once the entry was swept as older than an hour.
C8_StartStep ==
  (nextId' # nextId /\ nextId \in DOMAIN testProgress') =>
    /\ nextId \in activeTests'
    /\ testProgress'[nextId].progress = 0
    /\ testProgress'[nextId].startTime = now
    /\ IF exec'[nextId].pc = "caught"
       THEN testProgress'[nextId].status = "failed"
       ELSE testProgress'[nextId].status = "running"

C8_PollAnswer(r) ==
  LET resp == ProgressResponse(r)
  IN  IF resp.code = 404
      THEN testProgress[r].startTime < now - HourMs
      ELSE /\ resp.progress = 0
           /\ resp.status \in {"running", "cancelled"}
           /\ (resp.status = "cancelled") <=> (testProgress[r].cancelledBy # Null)

C8_PollDuringFirstCheck ==
  /\ [](\A r \in Manual : FirstCheckInFlight(r) => C8_PollAnswer(r))
  /\ [][C8_StartStep]_vars

C8_Witness ==
  \E r \in Manual :
    /\ FirstCheckInFlight(r)
    /\ ProgressResponse(r).code = 200
    /\ ProgressResponse(r).status = "cancelled"
    /\ ProgressResponse(r).progress = 0

\* nothing of run r has reached the store or the report directory
NothingPersisted(r) ==
  /\ exec[r].dbRunId = Undefined
  /\ exec[r].queue = << >>
  /\ \A f \in reports : f.run # r

\* C9 as stated: a run whose check or set-up threw is failed, with the error on
\* its entry, and nothing of it is persisted.
C9_ThrowFailsRun ==
  \A r \in Manual :
    exec[r].pc = "caught" =>
      /\ testProgress[r].status = "failed"
      /\ testProgress[r].error # Null
      /\ NothingPersisted(r)

\* C9 amended: a run whose check or set-up threw attempts no further check and
\* persists nothing; its entry is failed with the error and endTime recorded if
\* the entry was still in the tracker, and is left as it was (running or
\* cancelled, out of the tracker) if the sweep had removed it.
C9_CaughtState(r) ==
  /\ NothingPersisted(r)
  /\ \/ /\ testProgress[r].status = "failed"
        /\ testProgress[r].error # Null
        /\ testProgress[r].endTime # Undefined
     \/ /\ r \notin activeTests
        /\ testProgress[r].status \in {"running", "cancelled"}
        /\ testProgress[r].error = Null
        /\ testProgress[r].startTime < now - HourMs

C9_ThrowEndsRun ==
  /\ [](\A r \in Manual : exec[r].pc = "caught" => C9_CaughtState(r))
  /\ [][\A r \in Manual : exec[r].pc = "caught" =>
          /\ exec'[r] = exec[r]
          /\ testProgress'[r] = testProgress[r]]_vars

C9_Witness ==
  \E r \in Manual :
    /\ exec[r].pc = "caught"
    /\ exec[r].i = 1
    /\ exec[r].totalTests = 2
    /\ r \in activeTests
    /\ testProgress[r].status = "failed"
    /\ testProgress[r].error # Null

\* the loop of run r has ended: every check returned, or the last Result stopped it
LoopEnded(r) ==
  \/ Len(exec[r].tests) = exec[r].totalTests
  \/ /\ exec[r].tests # << >>
     /\ exec[r].tests[Len(exec[r].tests)].critical
     /\ exec[r].tests[Len(exec[r].tests)].status = "FAIL"
     /\ config.stopOnCriticalFailure

\* C10: a run whose checks all ran never fails: a failing store write leaves the
\* executor on its normal path, and the run ends completed with progress 100.
C10_StoreFailureStillCompletes ==
  \A r \in Manual :
    LoopEnded(r) =>
      /\ exec[r].pc # "caught"
      /\ testProgress[r].status # "failed"
      /\ exec[r].pc = "done" =>
           /\ testProgress[r].status = "completed"
           /\ testProgress[r].progress = 100

C10_Witness ==
  \E r \in Manual :
    /\ exec[r].pc = "done"
    /\ exec[r].runId = Undefined
    /\ exec[r].dbRunId # Undefined
    /\ testProgress[r].status = "completed"

\* processResults of run r has returned
Processed(r) ==
  \/ exec[r].pc \in {"sendAlert", "done"}
  \/ exec[r].pc = "exited" /\ exec[r].error = Null

\* C11: every run whose processResults has got past the store write, manual or
\* scheduled, has had saveReport write its report, whether saveCompleteRun
\* resolved (the report carries the run id) or rejected (it carries none).
C11_ReportAlwaysWritten ==
  \A r \in Started :
    Processed(r) =>
      /\ \E f \in reports : f.run = r /\ f.runId = exec[r].runId
      /\ (exec[r].runId = Undefined) \/ (exec[r].runId = exec[r].dbRunId)

C11_Witness ==
  \E r \in Started :
    /\ Processed(r)
    /\ exec[r].dbRunId # Undefined
    /\ exec[r].runId = Undefined
    /\ \E f \in reports : f.run = r /\ f.runId = Undefined

\* C12: the step in which sendMail settles ends the run the same way whether the
\* mail was delivered or not: the Results, the summary and the run id are kept,
\* the store is not touched, a manual run's entry becomes completed with those
\* results, and a scheduled run exits with the code of its summary.
C12_AlertStep(r) ==
  (exec[r].pc = "sendAlert" /\ exec'[r].pc # "sendAlert") =>
    /\ exec'[r] = [exec[r] EXCEPT
          !.pc = IF exec[r].caller = "manual" THEN "done" ELSE "exited",
          !.exitCode = IF exec[r].caller = "manual" THEN Undefined
                       ELSE ExitCode(exec[r].summary)]
    /\ storeVars' = storeVars
    /\ reports' = reports
    /\ r \in Manual =>
         /\ r \in activeTests'
         /\ testProgress'[r].status = "completed"
         /\ testProgress'[r].progress = 100
         /\ testProgress'[r].error = testProgress[r].error
         /\ testProgress'[r].results = {MonitorResults(exec[r])}

C12_AlertFailureHarmless == [][\A r \in Started : C12_AlertStep(r)]_vars

C12_Witness ==
  \E r \in Manual :
    /\ exec[r].pc = "done"
    /\ exec[r].runId # Undefined
    /\ AlertDue(exec[r].summary, config) /\ config.smtpConfigured
    /\ r \notin sentAlerts
    /\ testProgress[r].status = "completed"

\* C13: the sweep made by the start handler deletes every entry whose startTime
\* is more than one hour before now, whatever its status, and leaves every other
\* entry in the map, unchanged; the entries it deletes were all that old.
C13_SweepStep ==
  (nextId' # nextId /\ nextId \in DOMAIN testProgress') =>
    \A k \in activeTests :
      IF testProgress[k].startTime < now - HourMs
      THEN k \notin activeTests'
      ELSE k \in activeTests' /\ testProgress'[k] = testProgress[k]

C13_SweepByAge == [][C13_SweepStep]_vars

C13_Witness ==
  \E k \in Manual, j \in Manual :
    /\ k \notin activeTests
    /\ testProgress[k].status = "running"
    /\ testProgress[k].startTime < testProgress[j].startTime - HourMs
    /\ j \in activeTests

\* an entry exactly one hour old outlives a sweep
C13_WitnessKept ==
  \E k \in Manual, j \in Manual :
    /\ k \in activeTests /\ j \in activeTests
    /\ testProgress[k].startTime = testProgress[j].startTime - HourMs

\* run r completed less than EvictDelayMs ago
InGrace(r) ==
  /\ testProgress[r].status = "completed"
  /\ now < testProgress[r].endTime + EvictDelayMs

\* a poll of r answers with the final state of a completed run
AnswersCompleted(r) ==
  /\ ProgressResponse(r).code = 200
  /\ ProgressResponse(r).success
  /\ ProgressResponse(r).status = "completed"
  /\ ProgressResponse(r).progress = 100
  /\ testProgress[r].results # {}

\* C14 as stated: for EvictDelayMs after a run completed, a poll answers with its
\* final state.
C14_ReadableInGracePeriod ==
  \A r \in Manual : InGrace(r) => AnswersCompleted(r)

\* C14 amended: for EvictDelayMs after a run completed a poll answers with its
\* final state, unless a manual run started in the meantime swept the entry as
\* more than an hour old; the timer's callback deletes the entry; and once the
\* entry of a completed run is deleted every poll answers 404, not-found.
C14_GraceState ==
  \A r \in Manual :
    /\ InGrace(r) =>
         \/ AnswersCompleted(r)
         \/ r \notin activeTests /\ testProgress[r].startTime < now - HourMs
    /\ (testProgress[r].status = "completed" /\ r \notin activeTests) =>
         /\ ProgressResponse(r).code = 404
         /\ ~ProgressResponse(r).success

C14_TimerStep ==
  /\ \A tm \in timers : tm \notin timers' =>
        /\ tm.id \notin activeTests'
        /\ now' >= tm.at
  /\ \A r \in Manual :
        (testProgress[r].status = "completed" /\ r \notin activeTests) =>
          r \notin activeTests'

C14_GraceThenEvicted == []C14_GraceState /\ [][C14_TimerStep]_vars

C14_Witness ==
  \E r \in Manual :
    /\ testProgress[r].status = "completed"
    /\ now >= testProgress[r].endTime + EvictDelayMs
    /\ ~(testProgress[r].startTime < now - HourMs)
    /\ ProgressResponse(r).code = 404

\* the registrations the claim calls enabled, and the order value each was given
\* (DefaultOrder when none was)
GivenEnabled(call) == ~("enabled" \in DOMAIN call.options /\ call.options.enabled = FALSE)
GivenOrder(call) ==
  IF "order" \in DOMAIN call.options THEN call.options.order ELSE DefaultOrder

\* the place of registration i among the enabled ones: ascending order value,
\* ties in registration order
GivenPlace(i) ==
  Cardinality({j \in 1..Len(registered) :
     /\ GivenEnabled(registered[j])
     /\ \/ GivenOrder(registered[j]) < GivenOrder(registered[i])
        \/ GivenOrder(registered[j]) = GivenOrder(registered[i]) /\ j <= i})

\* C15: the checks a run got from getTests are exactly the enabled registrations,
\* one instance each, in ascending order of the order value given to register
\* (0 included), ties in registration order.
C15_GetTestsSorted ==
  \A r \in Started :
    exec[r].totalTests # Undefined =>
      LET out == exec[r].testInstances
          enabledCalls == {i \in 1..Len(registered) : GivenEnabled(registered[i])}
      IN  /\ Len(out) = Cardinality(enabledCalls)
          /\ \A i \in enabledCalls :
                /\ out[GivenPlace(i)].class = registered[i].class
                /\ out[GivenPlace(i)].name = CheckClasses[registered[i].class].name
                /\ out[GivenPlace(i)].critical = CheckClasses[registered[i].class].critical

\* the loop of run r met a critical FAIL with stopOnCriticalFailure set
HitCriticalStop(r) ==
  /\ config.stopOnCriticalFailure
  /\ \E k \in 1..Len(exec[r].tests) :
        exec[r].tests[k].critical /\ exec[r].tests[k].status = "FAIL"

\* C16: a run that ended by exhaustion (past its loop, no exception, no critical
\* FAIL with stopOnCriticalFailure set) has exactly one Result per enabled check,
\* in the order the checks were executed.
C16_ExhaustionRunsAll ==
  \A r \in Started :
    (PastLoop(r) /\ ~HitCriticalStop(r)) =>
      /\ Len(exec[r].tests) = Len(SelectSeq(registered, GivenEnabled))
      /\ Len(exec[r].tests) = Len(getTests(registry))
      /\ \A k \in 1..Len(exec[r].tests) :
            /\ exec[r].tests[k].name = getTests(registry)[k].name
            /\ exec[r].tests[k].critical = getTests(registry)[k].critical
      /\ (r \in Manual /\ testProgress[r].status = "completed") =>
            /\ testProgress[r].results # {}
            /\ \A res \in testProgress[r].results : res.tests = exec[r].tests

\* a critical FAIL with stopOnCriticalFailure unset and a critical SKIP, each
\* followed by the rest of the loop
C16_Witness ==
  \E r \in Manual :
    /\ ~config.stopOnCriticalFailure
    /\ testProgress[r].status = "completed"
    /\ Len(exec[r].tests) = 3
    /\ exec[r].tests[1].critical /\ exec[r].tests[1].status = "FAIL"
    /\ exec[r].tests[3].critical /\ exec[r].tests[3].status = "SKIP"
    /\ exec[r].completedTests = 3

\* the Results embedded in a row getRunDetails returned; a row whose tests
\* column is null embeds none
Embedded(row) == IF row.tests = Absent THEN << >> ELSE ValueOf(row.tests)

\* the Results saved for run r as the reader should return them: in execution
\* order, each with the saved name, status and details
SavedResults(r) ==
  [k \in 1..Len(exec[r].tests) |->
     [name |-> Present(<<exec[r].tests[k].name>>),
      status |-> Present(<<exec[r].tests[k].status>>),
      details |-> exec[r].tests[k].details]]

\* C17: once saveCompleteRun has returned a run id, getRunDetails of that id
\* returns the run with one embedded Result per saved Result, in execution
\* order, each with the saved name, status and details (none for a run without
\* Results); an id that no run has yields not-found.
C17_RunDetailsRoundTrip ==
  /\ \A r \in Started :
        exec[r].runId # Undefined =>
          LET got == getRunDetails(test_runs, individual_tests, exec[r].runId)
          IN  /\ got # Absent
              /\ ValueOf(got).run = test_runs[exec[r].runId]
              /\ Embedded(ValueOf(got)) = SavedResults(r)
  /\ \A id \in KnownOrUnknownIds :
        id \notin 1..Len(test_runs) => RunResponse(id).code = 404

\* C18: a run id getRunDetails has returned data for keeps returning identical
\* data, whatever step of the store is taken in between (the statements of a
\* saveCompleteRun in progress for that id included).
C18_RunDetailsRepeatable ==
  [][\A id \in KnownOrUnknownIds :
       getRunDetails(test_runs, individual_tests, id) # Absent =>
         getRunDetails(test_runs', individual_tests', id) =
           getRunDetails(test_runs, individual_tests, id)]_vars

\* saveCompleteRun of run r has inserted the Run row and is still writing its
\* Results: an INSERT of a Result is yet to execute
WritingResults(r) ==
  \E k \in 1..Len(exec[r].queue) : exec[r].queue[k].op = "test"

\* the Result rows stored for run r, in table order
StoredRows(r) ==
  LET mine(row) == row.run_id = exec[r].dbRunId
  IN  SelectSeq(individual_tests, mine)

\* C19: the Run row and its Result rows are written as one unit: once the
\* writing of run r is over, whether it succeeded or a Result INSERT or the
\* later uptime step failed, a Run row in the store has the full set of its
\* Result rows.
C19_RunAndResultsAtomic ==
  \A r \in Started :
    (exec[r].dbRunId # Undefined /\ ~WritingResults(r)) =>
      StoredRows(r) = [k \in 1..Len(exec[r].tests) |-> TestRow(exec[r].dbRunId, exec[r].tests[k])]

\* no saveCompleteRun is between its Run INSERT and the end of its uptime step
NoSaveInProgress ==
  \A r \in Started : exec[r].pc \notin {"saveTests", "updateUptime"}

\* the Run rows of the store that have passed_tests > 0
HasPassed(run) == run.passed_tests > 0

\* C20: for the day on which the N Run rows of the store were saved, M of them
\* with passed > 0, the day's row of uptime_stats exists and has
\* total_checks = N and successful_checks = M.  (Every run of the model falls
\* on the same day.)
C20_UptimeCountsRuns ==
  NoSaveInProgress =>
    LET N == Len(test_runs)
        M == Len(SelectSeq(test_runs, HasPassed))
        today(row) == row.date = Today(now)
        rows == SelectSeq(uptime_stats, today)
    IN  /\ N > 0 => rows # << >>
        /\ \A k \in 1..Len(rows) :
              /\ rows[k].total_checks = N
              /\ rows[k].successful_checks = M

\* C21: every row of uptime_stats has 0 <= successful_checks <= total_checks,
\* and no two rows have the same date.
C21_UptimeRowsSound ==
  /\ \A k \in 1..Len(uptime_stats) :
        /\ 0 <= uptime_stats[k].successful_checks
        /\ uptime_stats[k].successful_checks <= uptime_stats[k].total_checks
  /\ \A j, k \in 1..Len(uptime_stats) :
        uptime_stats[j].date = uptime_stats[k].date => j = k

\* two runs were counted on one day, one of them without a PASS: the second
\* INSERT OR IGNORE met the day's row
C21_Witness ==
  \E k \in 1..Len(uptime_stats) :
    /\ uptime_stats[k].total_checks = 2
    /\ uptime_stats[k].successful_checks = 1

\* the runs whose saveCompleteRun has returned a run id
Saved == {r \in Started : exec[r].runId # Undefined}

\* the critical Results of run r named name that did not pass
FailedCriticalNamed(r, name) ==
  LET named(t) == IsFailedCritical(t) /\ t.name = name
  IN  SelectSeq(exec[r].tests, named)

RECURSIVE SumOver(_, _)
SumOver(runs, name) ==
  IF runs = {} THEN 0
  ELSE LET r == CHOOSE x \in runs : TRUE
       IN  Len(FailedCriticalNamed(r, name)) + SumOver(runs \ {r}, name)

\* the check names of the registry
CheckNames == {CheckClasses[c].name : c \in DOMAIN CheckClasses}

\* no statement of any run is waiting to be executed
StoreQuiet == \A r \in Started : exec[r].queue = << >>

\* C22: once the statements of the saved runs have been dealt with, the
\* incidents of each check name are exactly one row per critical Result of that
\* name with status other than PASS in a saved run (a new row each time), each
\* open and without end_time; other Results have no incident.
C22_IncidentPerFailedCritical ==
  StoreQuiet =>
    /\ \A name \in CheckNames :
          LET named(row) == row.test_name = name
          IN  Len(SelectSeq(incidents, named)) = SumOver(Saved, name)
    /\ \A k \in 1..Len(incidents) :
          /\ incidents[k].test_name \in CheckNames
          /\ incidents[k].status = "open"
          /\ incidents[k].end_time = Undefined

\* an incident with this id exists and is open
IsOpenIncident(id) ==
  \E k \in 1..Len(incidents) : incidents[k].id = id /\ incidents[k].status = "open"

\* C23: resolveIncident(id, resolvedBy, notes) returns true exactly when an
\* incident with that id exists and is open; for an unknown id and for an
\* incident already resolved it returns false.
C23_ResolveTrueIffOpen ==
  \A id \in IncidentIds, args \in ResolveArguments :
    resolveIncident(incidents, id, args.resolvedBy, args.notes, now).returned
      = IsOpenIncident(id)

\* C24: resolving an incident that is already resolved changes nothing: its
\* end_time, resolved_by and resolution_notes keep the values of the first
\* resolve.
C24_ResolveOnce ==
  [][\A k \in 1..Len(incidents) :
       incidents[k].status = "resolved" =>
         /\ incidents'[k].end_time = incidents[k].end_time
         /\ incidents'[k].resolved_by = incidents[k].resolved_by
         /\ incidents'[k].resolution_notes = incidents[k].resolution_notes]_vars

\* C25: incidents are a historical record.  In every step no row is deleted,
\* the id, test_name and start_time of a row stay as inserted, a resolved row
\* stays resolved, and a row changes only in a step of resolveIncident.
C25_IncidentsAreHistory ==
  [][/\ Len(incidents') >= Len(incidents)
     /\ \A k \in 1..Len(incidents) :
           /\ incidents'[k].id = incidents[k].id
           /\ incidents'[k].test_name = incidents[k].test_name
           /\ incidents'[k].start_time = incidents[k].start_time
           /\ incidents[k].status = "resolved" => incidents'[k].status = "resolved"
           /\ incidents'[k].status \in {"open", "resolved"}
           /\ incidents'[k] # incidents[k] =>
                 \E args \in ResolveArguments :
                   ResolveIncident(incidents[k].id, args, TRUE)]_vars

\* an incident was resolved, and a later run opened another one after it
C25_Witness ==
  /\ Len(incidents) = 2
  /\ incidents[1].status = "resolved"
  /\ incidents[1].end_time < incidents[2].start_time
  /\ incidents[2].status = "open"

\* the incidents a filter asks for
Wanted(status) ==
  {k \in 1..Len(incidents) : status = "all" \/ incidents[k].status = status}

\* C26: getIncidents(status) returns exactly the incidents matching the filter
\* (open, resolved, or every incident for "all"), newest start_time first.
C26_GetIncidentsFiltered ==
  \A status \in StatusFilters :
    LET got == getIncidents(incidents, status)
    IN  /\ Len(got) = Cardinality(Wanted(status))
        /\ {got[p] : p \in 1..Len(got)} = {incidents[k] : k \in Wanted(status)}
        /\ \A p, q \in 1..Len(got) : p < q => got[p].start_time >= got[q].start_time

\* the dates of the window of a read that have a row
StoredDates(days) ==
  {uptime_stats[k].date : k \in {j \in 1..Len(uptime_stats) :
                                   uptime_stats[j].date >= Today(now) - days}}

\* C27: getUptimeStats(days) returns one entry per date of the window that has
\* a row and none for any other date, the most recent date first, each with the
\* row's counts and with uptime_percentage = successful_checks * 100 /
\* total_checks computed from them, to two decimals.
C27_UptimeStatsRead ==
  \A days \in DaysChoices :
    LET got == getUptimeStats(uptime_stats, Today(now), days)
    IN  /\ {got[p].date : p \in 1..Len(got)} = StoredDates(days)
        /\ Len(got) = Cardinality(StoredDates(days))
        /\ \A p, q \in 1..Len(got) : p < q => got[p].date > got[q].date
        /\ \A p \in 1..Len(got) : \E k \in 1..Len(uptime_stats) :
              /\ uptime_stats[k].date = got[p].date
              /\ got[p].total_checks = uptime_stats[k].total_checks
              /\ got[p].successful_checks = uptime_stats[k].successful_checks
              /\ got[p].total_checks > 0 =>
                    /\ got[p].uptime_percentage # Absent
                    /\ LET off == ValueOf(got[p].uptime_percentage) * got[p].total_checks
                                     - got[p].successful_checks * 10000
                       IN  2 * off <= got[p].total_checks /\ 0 - got[p].total_checks <= 2 * off

\* rows for the first and the third day and none for the second: a read over
\* two days returns both, the later first, and a read over one day only the later
C27_Witness ==
  /\ Today(now) = 2
  /\ Len(uptime_stats) = 2
  /\ uptime_stats[1].date = 0 /\ uptime_stats[2].date = 2
  /\ uptime_stats[1].total_checks = 1 /\ uptime_stats[2].total_checks = 1
  /\ Len(getUptimeStats(uptime_stats, Today(now), 2)) = 2
  /\ getUptimeStats(uptime_stats, Today(now), 2)[1].date = 2
  /\ Len(getUptimeStats(uptime_stats, Today(now), 1)) = 1

\* --------------------------------------------------- the retention sweeper
\* The sweep is judged on directories holding every mix of files the code tells
\* apart: logs that are empty, of exactly the maximum size and one byte above
\* it, rotated logs, a report and a screenshot, each last modified just before
\* the cutoff or exactly at it.  A file that is not empty holds what was written
\* under its first path.
Paths == {"logs/app.log", "logs/app.log.old", "logs/err.log", "logs/err.log.old",
          "reports/report.json", "screenshots/shot.png"}

SizeChoices(path) ==
  IF EndsWithLog(path) THEN {0, MaxLogBytes, MaxLogBytes + 1}
  ELSE IF path \in {"logs/app.log.old", "logs/err.log.old"} THEN {1}
  ELSE {0, 1}

FileChoices(path, t, cfg) ==
  { [size |-> size, mtime |-> mtime, content |-> IF size = 0 THEN "" ELSE path] :
      size \in SizeChoices(path), mtime \in {CutoffDate(t, cfg) - 1, CutoffDate(t, cfg)} }

\* a path holds no file or one of the files above
FileOptions(path, t, cfg) == {Absent} \cup {Present(file) : file \in FileChoices(path, t, cfg)}
FileSystemOf(options) ==
  [path \in {q \in Paths : options[q] # Absent} |-> ValueOf(options[path])]

DiskFileSystemOf(options) ==
  [path \in {q \in DOMAIN options : options[q] # Absent} |-> ValueOf(options[path])]

FaultChoices == {NoFault} \cup [path : Paths, op : FileOps]

InitCleanup ==
  /\ config \in {c \in ConfigChoices : c.stopOnCriticalFailure}
  /\ registered = Registrations
  /\ registry = RegisterAll(<< >>, Registrations)
  /\ now = CleanupNow
  /\ nextId = MaxRuns + 1
  /\ activeTests = {}
  /\ testProgress = << >>
  /\ exec = << >>
  /\ timers = {}
  /\ test_runs = << >>
  /\ individual_tests = << >>
  /\ uptime_stats = << >>
  /\ incidents = << >>
  /\ reports = {}
  /\ sentAlerts = {}
  /\ faults = 0
  /\ cleanupConfig \in CleanupConfigChoices
  /\ \E appLog \in FileOptions("logs/app.log", now, cleanupConfig),
        appOld \in FileOptions("logs/app.log.old", now, cleanupConfig),
        errLog \in FileOptions("logs/err.log", now, cleanupConfig),
        errOld \in FileOptions("logs/err.log.old", now, cleanupConfig),
        report \in FileOptions("reports/report.json", now, cleanupConfig),
        shot \in FileOptions("screenshots/shot.png", now, cleanupConfig) :
        fileSystem = FileSystemOf("logs/app.log" :> appLog @@ "logs/app.log.old" :> appOld
                                  @@ "logs/err.log" :> errLog @@ "logs/err.log.old" :> errOld
                                  @@ "reports/report.json" :> report
                                  @@ "screenshots/shot.png" :> shot)
  /\ cleanupResults = Absent
  /\ sweep = Absent
  /\ directories = DirectoryNames

\* "await cleanupManager.performCleanup()", during which the file operation
\* named by fault throws
PerformCleanup(fault) ==
  /\ cleanupResults = Absent
  /\ fault # NoFault => CanFail /\ fault.path \in DOMAIN fileSystem
  /\ LET done == performCleanup(fileSystem, cleanupConfig, fault, now)
     IN  /\ fileSystem' = done.files
         /\ cleanupResults' = Present(done.returned)
  /\ sweep' = Present([before |-> fileSystem, fault |-> fault])
  /\ faults' = faults + (IF fault = NoFault THEN 0 ELSE 1)
  /\ UNCHANGED << config, cleanupConfig, directories, registered, registry, now, nextId, activeTests,
                  testProgress, exec, timers, test_runs, individual_tests, uptime_stats,
                  incidents, reports, sentAlerts >>

NextCleanup == \E fault \in FaultChoices : PerformCleanup(fault)

SpecCleanup == InitCleanup /\ [][NextCleanup]_vars

CleanupTypeOK ==
  /\ DOMAIN fileSystem \subseteq Paths
  /\ cleanupResults # Absent => ValueOf(cleanupResults).success

\* ------------------------------------------------------- the usage report
\* The report is judged on every mix of existing and missing directories, an
\* existing one holding any of the files above; data holds the database file.
DiskPaths == Paths \cup {"data/monitor.db"}

\* a file of a directory, where the directory exists
DiskFileOptions(path, dirs, t, cfg) ==
  IF DirectoryOf(path) \notin dirs THEN {Absent}
  ELSE IF path = "data/monitor.db"
       THEN {Absent, Present([size |-> 1, mtime |-> CutoffDate(t, cfg) - 1, content |-> path])}
       ELSE {Absent} \cup {Present(file) : file \in {f \in FileChoices(path, t, cfg) :
                                                        f.size \in {0, 1, MaxLogBytes + 1}}}

DiskFaultChoices ==
  {NoFault} \cup [path : DiskPaths, op : {"stat"}] \cup [path : DirectoryNames, op : {"readdir"}]

InitDiskUsage ==
  /\ config \in {c \in ConfigChoices : c.stopOnCriticalFailure}
  /\ registered = Registrations
  /\ registry = RegisterAll(<< >>, Registrations)
  /\ now = CleanupNow
  /\ nextId = MaxRuns + 1
  /\ activeTests = {}
  /\ testProgress = << >>
  /\ exec = << >>
  /\ timers = {}
  /\ test_runs = << >>
  /\ individual_tests = << >>
  /\ uptime_stats = << >>
  /\ incidents = << >>
  /\ reports = {}
  /\ sentAlerts = {}
  /\ faults = 0
  /\ cleanupConfig \in {cfg \in CleanupConfigChoices : cfg.enabled /\ cfg.deleteEmptyLogs}
  /\ directories \in SUBSET DirectoryNames
  /\ \E appLog \in DiskFileOptions("logs/app.log", directories, now, cleanupConfig),
        appOld \in DiskFileOptions("logs/app.log.old", directories, now, cleanupConfig),
        errLog \in DiskFileOptions("logs/err.log", directories, now, cleanupConfig),
        errOld \in DiskFileOptions("logs/err.log.old", directories, now, cleanupConfig),
        report \in DiskFileOptions("reports/report.json", directories, now, cleanupConfig),
        shot \in DiskFileOptions("screenshots/shot.png", directories, now, cleanupConfig),
        database \in DiskFileOptions("data/monitor.db", directories, now, cleanupConfig) :
        fileSystem = DiskFileSystemOf("logs/app.log" :> appLog @@ "logs/app.log.old" :> appOld
                                      @@ "logs/err.log" :> errLog @@ "logs/err.log.old" :> errOld
                                      @@ "reports/report.json" :> report
                                      @@ "screenshots/shot.png" :> shot
                                      @@ "data/monitor.db" :> database)
  /\ cleanupResults = Absent
  /\ sweep = Absent

\* "await cleanupManager.getDiskUsage()", during which the operation named by
\* fault throws: it reads the directories and changes nothing
GetDiskUsage(fault) ==
  /\ getDiskUsage(fileSystem, directories, cleanupConfig, now, fault) # Absent
        <=> ~(fault.op = "readdir" /\ fault.path \in directories)
  /\ UNCHANGED vars

NextDiskUsage == \E fault \in DiskFaultChoices : GetDiskUsage(fault)

SpecDiskUsage == InitDiskUsage /\ [][NextDiskUsage]_vars

\* ------------------------------------------------------------------- C28
\* the sweep has run with cleanup enabled
Swept == sweep # Absent /\ cleanupConfig.enabled
Before == ValueOf(sweep).before
Fault == ValueOf(sweep).fault

Aged(file) == file.mtime < CutoffDate(now, cleanupConfig)
EmptyToDelete(file) == cleanupConfig.deleteEmptyLogs /\ file.size = 0

\* the path is that of a log above the maximum size or the ".old" path of one
InRotation(path) ==
  \E log \in DOMAIN Before :
    /\ EndsWithLog(log)
    /\ Before[log].size > cleanupConfig.maxLogSizeMB * 1024 * 1024
    /\ path \in {log, OldPath(log)}

\* what the sweep made of the file it found at a path
Gone(path) == path \notin DOMAIN fileSystem \/ fileSystem[path] # Before[path]
Kept(path) == path \in DOMAIN fileSystem /\ fileSystem[path] = Before[path]

\* C28: an enabled sweep over the log, report and screenshot directories
\* deletes every file last modified before now - retentionDays and, with
\* deleteEmptyLogs, every empty file of any age, and leaves every other file
\* as it was.  Nothing is asked of the file whose own operation failed, nor,
\* for the files to be left alone, of the two paths of a rotation.
C28_RetentionSweep ==
  Swept =>
    \A path \in DOMAIN Before \ {Fault.path} :
      LET file == Before[path]
      IN  /\ Aged(file) \/ EmptyToDelete(file) => Gone(path)
          /\ ~Aged(file) /\ ~EmptyToDelete(file) /\ ~InRotation(path) => Kept(path)

\* ------------------------------------------------------------------- C29
\* no operation on a log failed in the sweep
LogsHandled == ~EndsWithLog(Fault.path)

\* C29: after an enabled sweep in which no operation on a log failed, a log
\* that was within retention and larger than maxLogSizeMB is found with its
\* content under its name followed by ".old" and as an empty file under its
\* own name; for a log at or below the limit the ".old" path is as it was and
\* the log itself is deleted or as it was, never truncated.
C29_OversizedLogRotated ==
  Swept /\ LogsHandled =>
    \A log \in {path \in DOMAIN Before : EndsWithLog(path)} :
      LET file == Before[log]
          limit == cleanupConfig.maxLogSizeMB * 1024 * 1024
      IN  /\ ~Aged(file) /\ file.size > limit =>
                /\ OldPath(log) \in DOMAIN fileSystem
                /\ fileSystem[OldPath(log)] = file
                /\ log \in DOMAIN fileSystem
                /\ fileSystem[log].size = 0 /\ fileSystem[log].content = ""
          /\ file.size <= limit =>
                /\ OldPath(log) \in DOMAIN fileSystem <=> OldPath(log) \in DOMAIN Before
                /\ OldPath(log) \in DOMAIN Before => Kept(OldPath(log))
                /\ log \notin DOMAIN fileSystem \/ Kept(log)

\* app.log, one byte above the limit, was rotated over an older app.log.old
\* while err.log, of exactly the limit, stayed as it was
C29_Witness ==
  /\ Swept /\ Fault = NoFault
  /\ {"logs/app.log", "logs/app.log.old", "logs/err.log"} \subseteq DOMAIN Before
  /\ "logs/err.log.old" \notin DOMAIN Before
  /\ Before["logs/app.log"].size = MaxLogBytes + 1 /\ ~Aged(Before["logs/app.log"])
  /\ Before["logs/err.log"].size = MaxLogBytes /\ ~Aged(Before["logs/err.log"])
  /\ fileSystem["logs/app.log.old"].content = "logs/app.log"
  /\ fileSystem["logs/app.log"].size = 0
  /\ fileSystem["logs/err.log"] = Before["logs/err.log"]
  /\ "logs/err.log.old" \notin DOMAIN fileSystem
  /\ ValueOf(ValueOf(cleanupResults).results).logs.deleted = 1

\* ------------------------------------------------------------------- C30
\* the directory category of a path
CategoryOf(path) ==
  IF path \in {"reports/report.json"} THEN "reports"
  ELSE IF path \in {"screenshots/shot.png"} THEN "screenshots"
  ELSE "logs"

\* the sweep came to the operation that was to fail: the stat of a file its
\* category takes, the unlink of one that is empty or aged, the rename or the
\* write of a log that the first pass left and that is above the maximum size
Struck ==
  /\ Fault # NoFault
  /\ LET path == Fault.path
         file == Before[path]
         taken == EndsWithLog(path) \/ EndsWithReport(path) \/ EndsWithImage(path)
     IN  \/ Fault.op = "stat" /\ taken
         \/ Fault.op = "unlink" /\ taken /\ (Aged(file) \/ EmptyToDelete(file))
         \/ /\ Fault.op \in {"rename", "write"}
            /\ EndsWithLog(path) /\ ~Aged(file)
            /\ file.size > cleanupConfig.maxLogSizeMB * 1024 * 1024

\* what the sweep leaves of the same directories when no operation fails
Unfailing == performCleanup(Before, cleanupConfig, NoFault, now).files

\* C30: when one operation on a file throws during an enabled sweep, the
\* errors tally of the file's category is at least 1 and every other file is
\* left as a sweep without the failure leaves it: deleted, rotated or kept.
\* Nothing is asked of the file itself nor of its ".old" path.
C30_FileErrorCountedSweepGoesOn ==
  Swept /\ Struck =>
    /\ ValueOf(ValueOf(cleanupResults).results)[CategoryOf(Fault.path)].errors >= 1
    /\ \A path \in Paths \ {Fault.path, OldPath(Fault.path)} :
          /\ path \in DOMAIN fileSystem <=> path \in DOMAIN Unfailing
          /\ path \in DOMAIN fileSystem => fileSystem[path].content = Unfailing[path].content

\* ------------------------------------------------------------------- C31
\* the files of a directory, in the order of their paths
Listing(name) ==
  SelectSeq(<< "data/monitor.db", "logs/app.log", "logs/app.log.old", "logs/err.log",
               "logs/err.log.old", "reports/report.json", "screenshots/shot.png" >>,
            LAMBDA path : path \in DOMAIN fileSystem /\ DirectoryOf(path) = name)

RECURSIVE BytesOf(_)
BytesOf(listing) ==
  IF listing = << >> THEN 0 ELSE fileSystem[Head(listing)].size + BytesOf(Tail(listing))

\* the report getDiskUsage makes when nothing fails
Usage == ValueOf(getDiskUsage(fileSystem, directories, cleanupConfig, now, NoFault)).directories

C31_Report ==
  /\ getDiskUsage(fileSystem, directories, cleanupConfig, now, NoFault) # Absent
  /\ \A name \in DirectoryNames :
        IF name \in directories
        THEN /\ Usage[name].size = BytesOf(Listing(name))
             /\ Usage[name].files = Len(Listing(name))
             /\ Usage[name].oldFiles = Len(SelectSeq(Listing(name), LAMBDA path : Aged(fileSystem[path])))
        ELSE Usage[name] = [size |-> 0, files |-> 0, oldFiles |-> 0]

\* C31: getDiskUsage changes no file and no directory, whether or not one of
\* its reads fails, and when none fails it reports for each directory that
\* exists the sum of the sizes of its files, their number and the number of
\* those last modified before now - retentionDays, and three zeros for a
\* directory that does not exist.
C31_DiskUsageReadOnly ==
  /\ []C31_Report
  /\ [][\A fault \in DiskFaultChoices :
          UNCHANGED << fileSystem, directories >> \/ ~GetDiskUsage(fault)]_vars

\* no reports directory; in logs a fresh log above the maximum size and an
\* aged rotated log
C31_Witness ==
  /\ directories = {"logs", "screenshots", "data"}
  /\ DOMAIN fileSystem = {"logs/app.log", "logs/app.log.old"}
  /\ fileSystem["logs/app.log"].size = MaxLogBytes + 1 /\ ~Aged(fileSystem["logs/app.log"])
  /\ Aged(fileSystem["logs/app.log.old"])
  /\ Usage["logs"] = [size |-> MaxLogBytes + 2, files |-> 2, oldFiles |-> 1]
  /\ Usage["reports"] = [size |-> 0, files |-> 0, oldFiles |-> 0]

\* ------------------------------------------------------------------- C32
\* the checks of a run whose run() has been called and has not returned
InFlight(r) == IF exec[r].pc = "run" THEN {exec[r].i} ELSE {}

\* C32: in every state each run, manual or scheduled, has at most one check in
\* flight, and when check i of a run is in flight the run holds exactly the
\* Results of its checks 1..i-1: no check is started before the one before it
\* has returned, whatever the other runs are doing.
C32_ChecksSequential ==
  \A r \in Started :
    /\ Cardinality(InFlight(r)) <= 1
    /\ \A i \in InFlight(r) :
          /\ i \in 1..exec[r].totalTests
          /\ Len(exec[r].tests) = i - 1
          /\ \A k \in 1..(i - 1) : exec[r].tests[k].name = exec[r].testInstances[k].name

\* two runs in flight at once, one at its second check and one at its first
C32_Witness ==
  \E r, q \in Started :
    /\ r # q
    /\ InFlight(r) = {2} /\ Len(exec[r].tests) = 1
    /\ InFlight(q) = {1} /\ exec[q].tests = << >>

\* ------------------------------------------------------------------- C33
\* a step of the start handler, told by the id it uses up; the set-up of the
\* executor threw in it iff the new executor is in its catch block
C33_StartStep ==
  (nextId' # nextId /\ nextId \in DOMAIN testProgress') =>
    LET prelude == IF exec'[nextId].pc = "caught" THEN "throw" ELSE "ok"
    IN  /\ StartResponse(nextId, prelude) = [code |-> 200, success |-> TRUE, testId |-> nextId]
        /\ exec'[nextId].tests = << >>
        /\ exec'[nextId].dbRunId = Undefined
        /\ nextId \in activeTests'
        /\ testProgress'[nextId].status = (IF prelude = "throw" THEN "failed" ELSE "running")

\* a failure of a manual run after its start is on its entry, for as long as
\* the tracker holds it
C33_FailureOnEntry ==
  \A r \in Manual :
    exec[r].pc = "caught" /\ r \in activeTests =>
      /\ ProgressResponse(r).code = 200
      /\ ProgressResponse(r).status = "failed"

\* C33: every manual run request is answered with success and the new run id
\* in the step that starts the run, before any check has returned and before
\* anything is stored, also when the set-up of the executor throws; a failure
\* of the run shows in the answers to later polls, not in that response.
C33_StartAlwaysResponds ==
  /\ []C33_FailureOnEntry
  /\ [][C33_StartStep]_vars

\* the request was answered with the id of a run whose set-up threw: the poll
\* shows the run failed
C33_Witness ==
  \E r \in Manual :
    /\ exec[r].pc = "caught" /\ exec[r].totalTests = Undefined
    /\ StartResponse(r, "throw").testId = r
    /\ ProgressResponse(r).status = "failed"

\* ------------------------------------------------------------------- C34
\* the entry of run r was made and is no longer in the tracker
Deleted(r) == r \in DOMAIN testProgress /\ r \notin activeTests

\* C34: an entry that the one-hour sweep or the eviction timer deleted stays
\* deleted: no step puts it back into the tracker, so every later poll for its
\* run answers not-found, whatever the run's executor does afterwards.
C34_DeletedNeverReappears ==
  [][\A r \in RunIds :
       Deleted(r) => r \notin activeTests' /\ ProgressResponse(r).code = 404]_vars

\* ------------------------------------------------ the tracker left alone
\* Manual runs in the first minutes of the server with a working store and mail
\* server, followed for as long as it takes: an awaited check returns or
\* throws, an awaited statement is answered and a pending timer fires.  Nothing
\* obliges a client to start or to cancel a run.
RunStep(r) ==
  \/ \E status \in {"PASS", "FAIL", "SKIP"} : TestReturns(r, status)
  \/ TestThrows(r)
  \/ SaveTestRun(r, TRUE)
  \/ DbExec(r, TRUE)
  \/ UpdateUptime(r, TRUE, TRUE)
  \/ SendAlert(r, TRUE)

TimerStep == \E tm \in timers : EvictionTimer(tm)

NextEviction ==
  \/ TrackerNext
  \/ \E r \in RunIds : RunStep(r)
  \/ TimerStep

SpecEviction ==
  /\ Init
  /\ [][NextEviction]_vars
  /\ \A r \in RunIds : WF_vars(RunStep(r))
  /\ WF_vars(TimerStep)

\* ------------------------------------------------------------------- C35
\* C35: every entry in the tracker is eventually deleted from it, whether its
\* run completes, fails or is cancelled, even if no manual run is started
\* afterwards.
C35_EveryEntryEvicted ==
  \A r \in RunIds : (r \in activeTests) ~> (r \notin activeTests)

\* ------------------------------------------------------------------- C36
\* the executor of run r has left runEnhancedTests
Ended(r) == exec[r].pc \in {"done", "caught"}

\* the progress of an entry never decreases
C36_Step ==
  \A r \in Manual : testProgress'[r].progress >= testProgress[r].progress

\* before completion progress is what the top of the loop computed for the
\* check entered last, round(100 * completed / total) with completed the
\* number of checks finished before it, 0 for the first; completion sets 100
C36_Values ==
  \A r \in Manual :
    LET p == testProgress[r]
        e == exec[r]
    IN  /\ p.status = "completed" => p.progress = 100
        /\ p.status # "completed" =>
              p.progress = (IF e.i = 0 THEN 0 ELSE MathRound(100 * (e.i - 1), e.totalTests))
        /\ e.pc = "run" => e.completedTests = e.i - 1 /\ Len(e.tests) = e.i - 1

SameOutcomes(r, q) ==
  \A k \in 1..Len(exec[r].tests) :
    k <= Len(exec[q].tests) => exec[r].tests[k].status = exec[q].tests[k].status

\* C37: a manual and a scheduled run on the same registry and configuration
\* whose checks returned the same outcomes, none throwing, have run the same
\* checks in the same order and hand the same Results and the same Summary to
\* processResults.
C37_ExecutorsAgree ==
  \A r, q \in Started :
    ( /\ exec[r].caller = "manual" /\ exec[q].caller = "scheduled"
      /\ PastLoop(r) /\ PastLoop(q)
      /\ SameOutcomes(r, q) ) =>
        /\ exec[r].testInstances = exec[q].testInstances
        /\ exec[r].tests = exec[q].tests
        /\ exec[r].summary = exec[q].summary
        /\ exec[r].summary = Summary(exec[r].tests)

\* both executors stopped after a critical FAIL of the first of two checks
C37_Witness ==
  \E r, q \in Started :
    /\ exec[r].caller = "manual" /\ exec[q].caller = "scheduled"
    /\ PastLoop(r) /\ PastLoop(q)
    /\ exec[r].totalTests = 2
    /\ Len(exec[r].tests) = 1 /\ exec[r].tests[1].status = "FAIL"
    /\ exec[q].tests = exec[r].tests
    /\ exec[q].summary.failed = 1

\* ------------------------------------------------------------------- C38
\* the writes of saveCompleteRun for run r come in order: Result rows only
\* under a stored Run row, the uptime update only after every Result row, the
\* incident statements only after the uptime update
WritesInOrder(r) ==
  LET e == exec[r]
  IN  /\ RowsOf(r) # {} =>
            \E k \in 1..Len(test_runs) : test_runs[k].id = e.dbRunId
      /\ e.pc = "updateUptime" => Cardinality(RowsOf(r)) = Len(e.tests)
      /\ (\E k \in 1..Len(e.queue) : e.queue[k].op = "incident") =>
            /\ e.pc \notin {"run", "saveTestRun", "saveTests", "updateUptime"}
            /\ Cardinality(RowsOf(r)) = Len(e.tests)

\* C38: saveCompleteRun writes the Run row, then the Result rows, then the
\* uptime update, then the incidents, and once it has returned the run id none
\* of its statements is outstanding: getIncidents returns one incident per
\* critical Result that did not pass of every saved run, so that a failed
\* incident INSERT cannot have gone unnoticed.
C38_SavedMeansWritten ==
  /\ \A r \in Started : WritesInOrder(r)
  /\ \A r \in Saved : exec[r].queue = << >>
  /\ \A name \in CheckNames :
        LET named(row) == row.test_name = name
        IN  Len(SelectSeq(getIncidents(incidents, ""), named)) = SumOver(Saved, name)

\* ------------------------------------------------------------------- C39
\* the scheduled runs whose process has exited
Exited == {r \in Started : exec[r].caller = "scheduled" /\ exec[r].pc = "exited"}

\* C39: a scheduled run exits with code 0 only if runAllTests met no fatal
\* error, ran every check of the registry and no Result is FAIL; with a FAIL
\* Result it exits with 1, and after a fatal error with a code other than 0.
C39_ExitCodeTellsFailure ==
  \A r \in Exited :
    LET e == exec[r]
    IN  /\ e.exitCode \in {0, 1}
        /\ e.exitCode = 0 =>
              /\ e.error = Null
              /\ Len(e.tests) = e.totalTests
              /\ \A k \in 1..Len(e.tests) : e.tests[k].status # "FAIL"
        /\ (\E k \in 1..Len(e.tests) : e.tests[k].status = "FAIL") /\ e.error = Null =>
              e.exitCode = 1
        /\ e.error # Null => e.exitCode # 0
====
